---- MODULE Spec2Model ----
(***************************************************************************)
(* Configuration merge engine of add-tool-mcp (src/src/core/ConfigMerger.ts)*)
(* modelled as a state machine over a heap of JavaScript objects.           *)
(*                                                                         *)
(* JavaScript values:                                                      *)
(*   - an optional property is None (absent or undefined) or Some(v);       *)
(*   - a plain object used as a dictionary (env, mcpServers) is the         *)
(*     sequence of its own <<key, value>> pairs in insertion order;         *)
(*   - a string that the code splits on "." (a version) is the sequence of  *)
(*     its segments, each segment the sequence of its characters;           *)
(*   - objects the code writes to (configs, mcpServers maps, service        *)
(*     descriptors) are heap cells named by their address, so that aliasing *)
(*     and mutation of an input are expressible.                            *)
(***************************************************************************)
EXTENDS Integers, Sequences, FiniteSets, TLC

VARIABLES heap, heap0, now, fr

vars == <<heap, heap0, now, fr>>

(* ------------------------------------------------------------------ *)
(* Bounds of the model                                                 *)
(* ------------------------------------------------------------------ *)

\* Largest reading of the millisecond clock (Date.now()).
MaxClock == 1

\* Longest list of records handed to mergeMultipleConfigs.
MaxConfigs == 3

(* ------------------------------------------------------------------ *)
(* JavaScript values                                                    *)
(* ------------------------------------------------------------------ *)

None == <<>>

Some(v) == <<v>>

IsSome(o) == Len(o) = 1

\* JavaScript truthiness of an optional string: undefined and "" are falsy.
TruthyStr(o) == IsSome(o) /\ o[1] # ""

\* Object.keys(obj): the own keys in insertion order.
Keys(obj) == [i \in 1..Len(obj) |-> obj[i][1]]

KeySet(obj) == {obj[i][1] : i \in 1..Len(obj)}

\* Own-property read obj[k] for a key the object owns.
OwnGet(obj, k) == obj[CHOOSE i \in 1..Len(obj) : obj[i][1] = k][2]

\* obj[k] = v: an existing key keeps its position, a new key is appended.
Put(obj, k, v) ==
    IF k \in KeySet(obj)
    THEN [i \in 1..Len(obj) |-> IF obj[i][1] = k THEN <<k, v>> ELSE obj[i]]
    ELSE Append(obj, <<k, v>>)

\* { ...t, ...s } on dictionaries.
RECURSIVE SpreadInto(_, _)
SpreadInto(t, s) ==
    IF s = <<>> THEN t
    ELSE SpreadInto(Put(t, Head(s)[1], Head(s)[2]), Tail(s))

\* { ...o } where o may be undefined.
SpreadOpt(o) == IF IsSome(o) THEN o[1] ELSE <<>>

\* Names that every plain object inherits from Object.prototype.
ProtoNames == {"toString"}

\* Heap address of the inherited member (a function object: it has none of
\* the properties the merge code reads, and no own enumerable property).
ProtoAddr == 1

ProtoCell ==
    [kind |-> "service", command |-> None, args |-> None, env |-> None,
     disabled |-> None, cwd |-> None, timeout |-> None, metadata |-> None]

(* ------------------------------------------------------------------ *)
(* Equality and comparison utilities                                    *)
(* ------------------------------------------------------------------ *)

\* ConfigMerger.areArraysEqual: arrays are truthy, undefined is not.
areArraysEqual(arr1, arr2) ==
    IF ~IsSome(arr1) /\ ~IsSome(arr2) THEN TRUE
    ELSE IF ~IsSome(arr1) \/ ~IsSome(arr2) THEN FALSE
    ELSE IF Len(arr1[1]) # Len(arr2[1]) THEN FALSE
    ELSE \A index \in 1..Len(arr1[1]) : arr1[1][index] = arr2[1][index]

\* obj[key] on a dictionary of strings: None when the key is missing.
Lookup(obj, key) == IF key \in KeySet(obj) THEN Some(OwnGet(obj, key)) ELSE None

\* ConfigMerger.areObjectsEqual: same number of keys, and every key of the
\* first maps to the same value in the second.
areObjectsEqual(obj1, obj2) ==
    IF ~IsSome(obj1) /\ ~IsSome(obj2) THEN TRUE
    ELSE IF ~IsSome(obj1) \/ ~IsSome(obj2) THEN FALSE
    ELSE IF Len(Keys(obj1[1])) # Len(Keys(obj2[1])) THEN FALSE
    ELSE \A i \in 1..Len(obj1[1]) :
            Lookup(obj1[1], obj1[1][i][1]) = Lookup(obj2[1], obj1[1][i][1])

\* ConfigMerger.areServicesEqual on two service cells.
areServicesEqual(service1, service2) ==
    /\ service1.command = service2.command
    /\ areArraysEqual(service1.args, service2.args)
    /\ areObjectsEqual(service1.env, service2.env)
    /\ service1.disabled = service2.disabled

Digits == <<"0", "1", "2", "3", "4", "5", "6", "7", "8", "9">>

IsDigit(c) == \E d \in 1..Len(Digits) : Digits[d] = c

DigitVal(c) == (CHOOSE d \in 1..Len(Digits) : Digits[d] = c) - 1

\* Value of a short string of decimal digits.
RECURSIVE DecVal(_)
DecVal(seg) ==
    IF seg = <<>> THEN 0
    ELSE 10 * DecVal(SubSeq(seg, 1, Len(seg) - 1)) + DigitVal(seg[Len(seg)])

\* Numbers are pairs <<high, low>> standing for high * 10^8 + low, so that
\* the integers around 2^53, where a double stops being exact, can be
\* told apart.
Limb == 10 ^ 8

Zero == <<0, 0>>

\* 2^53 = 9007199254740992.
Two53 == <<90071992, 54740992>>

NumLess(a, b) == a[1] < b[1] \/ (a[1] = b[1] /\ a[2] < b[2])

RECURSIVE StripZeros(_)
StripZeros(seg) ==
    IF seg # <<>> /\ Head(seg) = "0" THEN StripZeros(Tail(seg)) ELSE seg

\* The integer a string of at most 16 significant digits denotes.
DecimalOf(seg) ==
    LET d == StripZeros(seg)
        n == Len(d)
    IN  IF n <= 8 THEN <<0, DecVal(d)>>
        ELSE <<DecVal(SubSeq(d, 1, n - 8)), DecVal(SubSeq(d, n - 7, n))>>

\* The double nearest to an integer below 2^54: integers up to 2^53 are
\* exact; above, doubles are 2 apart and an odd integer lies half way
\* between two of them, the tie going to the one with an even mantissa
\* (the multiple of 4).
RoundToDouble(n) ==
    IF ~NumLess(Two53, n) THEN n
    ELSE IF n[2] % 2 = 0 THEN n
    ELSE IF n[2] % 4 = 1 THEN <<n[1], n[2] - 1>>
    ELSE IF n[2] + 1 = Limb THEN <<n[1] + 1, 0>>
    ELSE <<n[1], n[2] + 1>>

\* Number(segment): the empty string is 0, a string of digits the double
\* nearest to its value, anything else NaN (None).
ToNumber(seg) ==
    IF \A i \in 1..Len(seg) : IsDigit(seg[i])
    THEN Some(RoundToDouble(DecimalOf(seg))) ELSE None

\* parts[i] || 0: a missing part, NaN and 0 all read as 0.
PartOrZero(parts, i) ==
    IF i > Len(parts) THEN Zero
    ELSE IF IsSome(ToNumber(parts[i])) THEN ToNumber(parts[i])[1] ELSE Zero

Max(a, b) == IF a >= b THEN a ELSE b

\* ConfigMerger.compareVersions, the loop from segment i on.
RECURSIVE compareFrom(_, _, _, _)
compareFrom(v1Parts, v2Parts, i, maxLength) ==
    IF i > maxLength THEN 0
    ELSE IF NumLess(PartOrZero(v2Parts, i), PartOrZero(v1Parts, i)) THEN 1
    ELSE IF NumLess(PartOrZero(v1Parts, i), PartOrZero(v2Parts, i)) THEN -1
    ELSE compareFrom(v1Parts, v2Parts, i + 1, maxLength)

compareVersions(version1, version2) ==
    compareFrom(version1, version2, 1, Max(Len(version1), Len(version2)))

(* ------------------------------------------------------------------ *)
(* Heap                                                                 *)
(* ------------------------------------------------------------------ *)

\* Address the next allocation gets.
NextAddr(h) == Len(h) + 1

Alloc(h, cell) == Append(h, cell)

\* obj.field = value on the cell at address a.
WriteMetadata(h, a, value) == [h EXCEPT ![a].metadata = value]

WriteEnv(h, a, value) == [h EXCEPT ![a].env = value]

WriteVersion(h, a, value) == [h EXCEPT ![a].version = value]

\* servers[name] = ref on the mcpServers map at address a.
WriteServer(h, a, name, ref) == [h EXCEPT ![a].entries = Put(@, name, ref)]

\* servers[name] read from a plain object: an own property, else a member
\* inherited from Object.prototype, else undefined.
ReadServer(h, a, name) ==
    IF name \in KeySet(h[a].entries) THEN Some(OwnGet(h[a].entries, name))
    ELSE IF name \in ProtoNames THEN Some(ProtoAddr)
    ELSE None

\* { ...targetService, ...sourceService }: every own property of the source
\* overrides the target's.
SpreadService(t, s) ==
    [kind     |-> "service",
     command  |-> IF IsSome(s.command) THEN s.command ELSE t.command,
     args     |-> IF IsSome(s.args) THEN s.args ELSE t.args,
     env      |-> IF IsSome(s.env) THEN s.env ELSE t.env,
     disabled |-> IF IsSome(s.disabled) THEN s.disabled ELSE t.disabled,
     cwd      |-> IF IsSome(s.cwd) THEN s.cwd ELSE t.cwd,
     timeout  |-> IF IsSome(s.timeout) THEN s.timeout ELSE t.timeout,
     metadata |-> IF IsSome(s.metadata) THEN s.metadata ELSE t.metadata]

(* ------------------------------------------------------------------ *)
(* Service merger                                                       *)
(* ------------------------------------------------------------------ *)

\* mergeMetadata that spreads neither object: only the stamp is kept.
mergeMetadataStampOnly(sourceMeta, targetMeta, clock) ==
    IF ~IsSome(sourceMeta) /\ ~IsSome(targetMeta) THEN None
    ELSE Some([description |-> None, lastModified |-> Some(clock)])

\* ConfigMerger.mergeMetadata: undefined when both are missing, otherwise
\* target overridden by source and stamped with the clock.
mergeMetadata(sourceMeta, targetMeta, clock) ==
    IF ~IsSome(sourceMeta) /\ ~IsSome(targetMeta) THEN None
    ELSE Some([description |->
                   IF IsSome(sourceMeta) /\ IsSome(sourceMeta[1].description)
                   THEN sourceMeta[1].description
                   ELSE IF IsSome(targetMeta) THEN targetMeta[1].description
                   ELSE None,
               lastModified |-> Some(clock)])

\* Detection that compares the working directory as well.
conflictFieldsWithCwd(s, t) ==
    (IF s.command # t.command THEN <<"command">> ELSE <<>>)
    \o (IF ~areArraysEqual(s.args, t.args) THEN <<"args">> ELSE <<>>)
    \o (IF ~areObjectsEqual(s.env, t.env) THEN <<"env">> ELSE <<>>)
    \o (IF s.disabled # t.disabled THEN <<"disabled">> ELSE <<>>)
    \o (IF s.cwd # t.cwd THEN <<"cwd">> ELSE <<>>)

\* The field names detectServiceConflict collects, in its order.
conflictFields(s, t) ==
    (IF s.command # t.command THEN <<"command">> ELSE <<>>)
    \o (IF ~areArraysEqual(s.args, t.args) THEN <<"args">> ELSE <<>>)
    \o (IF ~areObjectsEqual(s.env, t.env) THEN <<"env">> ELSE <<>>)
    \o (IF s.disabled # t.disabled THEN <<"disabled">> ELSE <<>>)

\* ConfigMerger.detectServiceConflict on the services at addresses sa and ta.
\* The id string conflict_<name>_<clock> is the pair <<name, clock>>; the
\* description is the list of fields it joins.
detectServiceConflict(h, serviceName, sa, ta, clock) ==
    IF conflictFields(h[sa], h[ta]) = <<>> THEN None
    ELSE Some([id           |-> <<serviceName, clock>>,
               serviceName  |-> serviceName,
               type         |-> "different-config",
               sourceConfig |-> sa,
               targetConfig |-> ta,
               description  |-> conflictFields(h[sa], h[ta]),
               path         |-> "",
               values       |-> [source |-> sa, target |-> ta]])

\* A field-wise merge that leaves env to the spread: the source's map
\* replaces the target's.
mergeServiceConfigsShallow(h, sa, ta, preserveMetadata, clock) ==
    LET merged == NextAddr(h)
        h1 == Alloc(h, SpreadService(h[ta], h[sa]))
        h3 == IF preserveMetadata
              THEN WriteMetadata(h1, merged,
                       mergeMetadata(h[sa].metadata, h[ta].metadata, clock))
              ELSE h1
    IN  [heap |-> h3, addr |-> merged]

\* ConfigMerger.mergeServiceConfigs: a fresh object, then its env and
\* metadata are assigned.  Returns the heap and the address of the object.
mergeServiceConfigs(h, sa, ta, preserveMetadata, clock) ==
    LET merged == NextAddr(h)
        h1 == Alloc(h, SpreadService(h[ta], h[sa]))
        h2 == IF IsSome(h[sa].env) \/ IsSome(h[ta].env)
              THEN WriteEnv(h1, merged,
                       Some(SpreadInto(SpreadOpt(h[ta].env), SpreadOpt(h[sa].env))))
              ELSE h1
        h3 == IF preserveMetadata
              THEN WriteMetadata(h2, merged,
                       mergeMetadata(h[sa].metadata, h[ta].metadata, clock))
              ELSE h2
    IN  [heap |-> h3, addr |-> merged]

\* { ...sourceService }: a fresh copy of the source descriptor.
copyService(h, sa) == [heap |-> Alloc(h, h[sa]), addr |-> NextAddr(h)]

\* Result of mergeService that allocates a descriptor.
withConfig(action, alloc, warnings) ==
    [heap |-> alloc.heap, action |-> action, config |-> Some(alloc.addr),
     conflict |-> None, warnings |-> warnings]

\* Result of mergeService that allocates nothing.
withoutConfig(h, conflict, warnings) ==
    [heap |-> h, action |-> "skip", config |-> None,
     conflict |-> conflict, warnings |-> warnings]

\* Overwrite that merges field-wise instead of copying the source.
onOverwriteMerging(h, serviceName, sa, ta) ==
    withConfig("update", mergeServiceConfigs(h, sa, ta, FALSE, 0),
               << <<"overwritten", serviceName>> >>)

\* Lines 329-334: a conflict under strategy overwrite.
onOverwrite(h, serviceName, sa, ta) ==
    withConfig("update", copyService(h, sa), << <<"overwritten", serviceName>> >>)

\* Skip that takes the source's descriptor all the same.
onSkipTakingSource(h, serviceName, sa, ta) ==
    withConfig("update", copyService(h, sa), << <<"skipped", serviceName>> >>)

\* Lines 336-340: a conflict under strategy skip.
onSkip(h, serviceName, sa, ta) ==
    withoutConfig(h, None, << <<"skipped", serviceName>> >>)

\* A forced merge that hands the conflict back as well.
onMergeReporting(h, serviceName, sa, ta, preserveMetadata, clock) ==
    [withConfig("update", mergeServiceConfigs(h, sa, ta, preserveMetadata, clock),
                << <<"forced-merge", serviceName>> >>)
        EXCEPT !.conflict = detectServiceConflict(h, serviceName, sa, ta, clock)]

\* Lines 342-347: a conflict under strategy merge.
onMerge(h, serviceName, sa, ta, preserveMetadata, clock) ==
    withConfig("update", mergeServiceConfigs(h, sa, ta, preserveMetadata, clock),
               << <<"forced-merge", serviceName>> >>)

\* A deferred conflict that is dropped instead of returned.
onPromptSilent(h, conflict) == withoutConfig(h, None, <<>>)

\* Lines 349-354: a conflict under strategy prompt, and the default branch.
onPrompt(h, conflict) == withoutConfig(h, conflict, <<>>)

\* ConfigMerger.mergeService.  targetService is None or Some(address).
mergeService(h, serviceName, sa, targetService, options, clock) ==
    IF ~IsSome(targetService)
    THEN withConfig("add", copyService(h, sa), <<>>)
    ELSE LET ta == targetService[1]
             conflict == detectServiceConflict(h, serviceName, sa, ta, clock)
         IN  IF ~IsSome(conflict)
             THEN withConfig("update",
                      mergeServiceConfigs(h, sa, ta, options.preserveMetadata, clock),
                      <<>>)
             ELSE CASE options.strategy = "overwrite" ->
                          onOverwrite(h, serviceName, sa, ta)
                    [] options.strategy = "skip" ->
                          onSkip(h, serviceName, sa, ta)
                    [] options.strategy = "merge" ->
                          onMerge(h, serviceName, sa, ta, options.preserveMetadata, clock)
                    [] OTHER ->
                          onPrompt(h, conflict)

(* ------------------------------------------------------------------ *)
(* Schema validator (ConfigurationManager.validateConfig)               *)
(* ------------------------------------------------------------------ *)

\* validateServiceConfig: the error it pushes for a service cell (messages
\* are tuples; the validator's do not name the service).  The
\* type checks on args, env and disabled cannot fail on typed descriptors.
serviceErrors(service) ==
    IF ~TruthyStr(service.command) THEN << <<"command-required">> >> ELSE <<>>

\* validateServiceConfig: the warning for a missing description.
serviceWarnings(service) ==
    IF IsSome(service.metadata) /\ TruthyStr(service.metadata[1].description)
    THEN <<>> ELSE << <<"add-description">> >>

RECURSIVE entryErrors(_, _)
entryErrors(h, entries) ==
    IF entries = <<>> THEN <<>>
    ELSE serviceErrors(h[Head(entries)[2]]) \o entryErrors(h, Tail(entries))

RECURSIVE entryWarnings(_, _)
entryWarnings(h, entries) ==
    IF entries = <<>> THEN <<>>
    ELSE serviceWarnings(h[Head(entries)[2]]) \o entryWarnings(h, Tail(entries))

\* A version is truthy unless it is undefined or the empty string.
TruthyVersion(v) == IsSome(v) /\ v[1] # << <<>> >>

\* /^\d+\.\d+(\.\d+)?$/ on a version string.
semverLike(version) ==
    /\ Len(version) \in {2, 3}
    /\ \A i \in 1..Len(version) :
          /\ version[i] # <<>>
          /\ \A j \in 1..Len(version[i]) : IsDigit(version[i][j])

\* validateConfigSync on the config at address c.
validateConfig(h, c) ==
    LET entries == h[h[c].mcpServers].entries
        errors == entryErrors(h, entries)
    IN  [isValid  |-> errors = <<>>,
         errors   |-> errors,
         warnings |-> entryWarnings(h, entries)
                      \o (IF TruthyVersion(h[c].version) /\ ~semverLike(h[c].version[1])
                          THEN << <<"version-format">> >> ELSE <<>>)]

(* ------------------------------------------------------------------ *)
(* Pairwise config merger (ConfigMerger.mergeConfigs)                   *)
(* ------------------------------------------------------------------ *)

Strategies == {"overwrite", "skip", "merge", "prompt", "unknown"}

OptionValues ==
    [strategy : Strategies, preserveMetadata : BOOLEAN, validateResult : BOOLEAN]

emptyStats ==
    [totalServices |-> 0, addedServices |-> 0, updatedServices |-> 0,
     skippedServices |-> 0, conflictServices |-> 0]

\* The MergeResult mergeConfigs starts from.
emptyResult ==
    [success |-> FALSE, config |-> None, conflicts |-> <<>>, errors |-> <<>>,
     warnings |-> <<>>, stats |-> emptyStats]

\* A process that has not called anything yet.  steps is the history of the
\* pairwise merges a mergeMultipleConfigs call has awaited (the
\* mergeResult of each loop iteration with its arguments); the code does
\* not read it.  args holds the arguments of a call of one of the
\* utilities.
idleFrame ==
    [op |-> "none", pc |-> "idle",
     options |-> [strategy |-> "prompt", preserveMetadata |-> FALSE,
                  validateResult |-> FALSE],
     configs |-> <<>>, source |-> 0, target |-> 0, mergedConfig |-> 0,
     entries |-> <<>>, k |-> 0, pending |-> None, validation |-> None,
     result |-> emptyResult, i |-> 0, acc |-> 0, finalResult |-> emptyResult,
     steps |-> <<>>, args |-> <<>>, ret |-> None]

\* mcpServers: targetConfig.mcpServers, without the spread: the merged
\* config shares the target's map.
aliasServers(h, tgt) == [heap |-> h, addr |-> h[tgt].mcpServers]

\* Line 91, { ...targetConfig.mcpServers }: a fresh map with the target's
\* entries.
cloneServers(h, tgt) ==
    [heap |-> Alloc(h, [kind |-> "servers", entries |-> h[h[tgt].mcpServers].entries]),
     addr |-> NextAddr(h)]

\* The version test with >= for >: an equal source version is adopted too.
adoptsSourceVersionOrEqual(sourceVersion, targetVersion) ==
    /\ TruthyVersion(sourceVersion)
    /\ \/ ~TruthyVersion(targetVersion)
       \/ compareVersions(sourceVersion[1], targetVersion[1]) >= 0

\* Line 95, the condition: sourceConfig.version && (!targetConfig.version
\* || compareVersions(sourceConfig.version, targetConfig.version) > 0).
adoptsSourceVersion(sourceVersion, targetVersion) ==
    /\ TruthyVersion(sourceVersion)
    /\ \/ ~TruthyVersion(targetVersion)
       \/ compareVersions(sourceVersion[1], targetVersion[1]) > 0

\* Lines 89-106: the merged config starts as a copy of the target with a
\* copy of its mcpServers map; version and metadata are reconciled; the
\* source's entries are listed and counted.
mergeStart(h, f, src, tgt, clock) ==
    LET servers == cloneServers(h, tgt).addr
        h1 == cloneServers(h, tgt).heap
        mergedConfig == NextAddr(h1)
        h2 == Alloc(h1, [h[tgt] EXCEPT !.mcpServers = servers])
        h3 == IF adoptsSourceVersion(h[src].version, h[tgt].version)
              THEN WriteVersion(h2, mergedConfig, h[src].version)
              ELSE h2
        h4 == IF f.options.preserveMetadata
              THEN WriteMetadata(h3, mergedConfig,
                       mergeMetadata(h[src].metadata, h[tgt].metadata, clock))
              ELSE h3
        entries == h[h[src].mcpServers].entries
    IN  [heap  |-> h4,
         frame |-> [f EXCEPT !.source = src, !.target = tgt,
                             !.mergedConfig = mergedConfig,
                             !.entries = entries, !.k = 1,
                             !.pending = None, !.validation = None,
                             !.result = [emptyResult EXCEPT
                                 !.stats.totalServices = Len(entries)]]]

\* mergeFinish that counts a conflict as a failure.
mergeFinishStrict(f) ==
    [f EXCEPT !.pc = "returned",
              !.result.config = Some(f.mergedConfig),
              !.result.success = (f.result.errors = <<>> /\ f.result.conflicts = <<>>)]

\* Lines 145-146: the merged config is attached and success computed.
mergeFinish(f) ==
    [f EXCEPT !.pc = "returned",
              !.result.config = Some(f.mergedConfig),
              !.result.success = (f.result.errors = <<>>)]

\* From the top of the loop to the next await: the call of mergeService
\* for entry k (line 109), or after the loop the call of validateConfig
\* (line 136), or the end of the function.
mergeAdvance(h, f, clock) ==
    IF f.k <= Len(f.entries)
    THEN LET serviceName == f.entries[f.k][1]
             r == mergeService(h, serviceName, f.entries[f.k][2],
                      ReadServer(h, h[f.mergedConfig].mcpServers, serviceName),
                      f.options, clock)
         IN  [heap  |-> r.heap,
              frame |-> [f EXCEPT !.pc = "awaitService",
                                  !.pending = Some([action |-> r.action,
                                                    config |-> r.config,
                                                    conflict |-> r.conflict,
                                                    warnings |-> r.warnings])]]
    ELSE IF f.options.validateResult
    THEN [heap  |-> h,
          frame |-> [f EXCEPT !.pc = "awaitValidate",
                              !.validation = Some(validateConfig(h, f.mergedConfig))]]
    ELSE [heap |-> h, frame |-> mergeFinish(f)]

\* countOutcome without the else after the conflict branch: a deferred
\* conflict, whose action is skip, is counted twice.
countOutcomeNoElse(stats, r) ==
    LET s1 == IF IsSome(r.conflict)
              THEN [stats EXCEPT !.conflictServices = @ + 1] ELSE stats
    IN  IF r.action = "add" THEN [s1 EXCEPT !.addedServices = @ + 1]
        ELSE IF r.action = "update" THEN [s1 EXCEPT !.updatedServices = @ + 1]
        ELSE IF r.action = "skip" THEN [s1 EXCEPT !.skippedServices = @ + 1]
        ELSE s1

\* Lines 116-127, the counters: one of them is incremented per service.
countOutcome(stats, r) ==
    IF IsSome(r.conflict)
    THEN [stats EXCEPT !.conflictServices = @ + 1]
    ELSE IF r.action = "add" THEN [stats EXCEPT !.addedServices = @ + 1]
    ELSE IF r.action = "update" THEN [stats EXCEPT !.updatedServices = @ + 1]
    ELSE IF r.action = "skip" THEN [stats EXCEPT !.skippedServices = @ + 1]
    ELSE stats

\* Lines 116-131: the outcome of mergeService is applied to the merged
\* config, counted, and its conflict and warnings are collected.
applyServiceResult(h, f) ==
    LET r == f.pending[1]
        serviceName == f.entries[f.k][1]
        servers == h[f.mergedConfig].mcpServers
    IN  [heap   |-> IF ~IsSome(r.conflict) /\ r.action \in {"add", "update"}
                    THEN WriteServer(h, servers, serviceName, r.config[1])
                    ELSE h,
         result |-> [f.result EXCEPT
                        !.conflicts = IF IsSome(r.conflict)
                                      THEN Append(@, r.conflict[1]) ELSE @,
                        !.stats = countOutcome(@, r),
                        !.warnings = @ \o r.warnings]]

\* applyValidation that keeps the validator's warnings and drops its errors.
applyValidationWarningsOnly(f) ==
    [f EXCEPT !.result.warnings = @ \o f.validation[1].warnings]

\* Lines 137-142: the validator's verdict is added to the result.
applyValidation(f) ==
    LET v == f.validation[1]
    IN  [f EXCEPT !.result.errors = IF v.isValid THEN @ ELSE @ \o v.errors,
                  !.result.warnings = @ \o v.warnings]

\* mergeConfigs from its call to its first await.
mergeBegin(h, f, src, tgt, clock) ==
    LET s == mergeStart(h, f, src, tgt, clock)
    IN  mergeAdvance(s.heap, s.frame, clock)

\* mergeConfigs from the resumption after `await this.mergeService(...)`
\* to its next await or its return.
resumeService(h, f, clock) ==
    LET a == applyServiceResult(h, f)
    IN  mergeAdvance(a.heap,
                     [f EXCEPT !.result = a.result, !.k = @ + 1, !.pending = None],
                     clock)

\* mergeConfigs from the resumption after
\* `await this.configManager.validateConfig(...)` to its return.
resumeValidate(h, f) == [heap |-> h, frame |-> mergeFinish(applyValidation(f))]

(* ------------------------------------------------------------------ *)
(* Multi-source reducer (ConfigMerger.mergeMultipleConfigs)             *)
(* ------------------------------------------------------------------ *)

\* An empty list answered with an empty successful result instead of an
\* exception.
returnOnEmpty(f) ==
    [f EXCEPT !.pc = "done",
              !.finalResult = [emptyResult EXCEPT !.success = TRUE],
              !.ret = Some([emptyResult EXCEPT !.success = TRUE])]

\* Lines 162-164: an empty list of records makes the call throw; nothing
\* is returned.
throwOnEmpty(f) == [f EXCEPT !.pc = "threw"]

\* The single record reported as if its services had been added.
singleResultAsAdded(h, c) ==
    [success |-> TRUE, config |-> Some(c), conflicts |-> <<>>, errors |-> <<>>,
     warnings |-> <<>>,
     stats |-> [emptyStats EXCEPT
                   !.totalServices = Len(Keys(h[h[c].mcpServers].entries)),
                   !.addedServices = Len(Keys(h[h[c].mcpServers].entries))]]

\* Lines 166-181: the result for a single record.
singleResult(h, c) ==
    [success |-> TRUE, config |-> Some(c), conflicts |-> <<>>, errors |-> <<>>,
     warnings |-> <<>>,
     stats |-> [emptyStats EXCEPT
                   !.totalServices = Len(Keys(h[h[c].mcpServers].entries))]]

\* Lines 183-197: the accumulator before the first step.
initialFinal(c) ==
    [success |-> TRUE, config |-> Some(c), conflicts |-> <<>>, errors |-> <<>>,
     warnings |-> <<>>, stats |-> emptyStats]

\* foldStep that keeps only the latest step's conflicts and warnings.
foldStepLatestLists(final, step) ==
    [final EXCEPT
        !.success = IF ~step.success THEN FALSE ELSE @,
        !.errors = IF ~step.success THEN @ \o step.errors ELSE @,
        !.conflicts = step.conflicts,
        !.warnings = step.warnings,
        !.stats = [totalServices |-> @.totalServices + step.stats.totalServices,
                   addedServices |-> @.addedServices + step.stats.addedServices,
                   updatedServices |-> @.updatedServices + step.stats.updatedServices,
                   skippedServices |-> @.skippedServices + step.stats.skippedServices,
                   conflictServices |-> @.conflictServices + step.stats.conflictServices]]

\* foldStep whose success is the latest step's success.
foldStepLatestSuccess(final, step) ==
    [final EXCEPT
        !.success = step.success,
        !.errors = IF ~step.success THEN @ \o step.errors ELSE @,
        !.conflicts = @ \o step.conflicts,
        !.warnings = @ \o step.warnings,
        !.stats = [totalServices |-> @.totalServices + step.stats.totalServices,
                   addedServices |-> @.addedServices + step.stats.addedServices,
                   updatedServices |-> @.updatedServices + step.stats.updatedServices,
                   skippedServices |-> @.skippedServices + step.stats.skippedServices,
                   conflictServices |-> @.conflictServices + step.stats.conflictServices]]

\* Lines 202-219: one step's result is folded into the accumulator.
foldStep(final, step) ==
    [final EXCEPT
        !.success = IF ~step.success THEN FALSE ELSE @,
        !.errors = IF ~step.success THEN @ \o step.errors ELSE @,
        !.conflicts = @ \o step.conflicts,
        !.warnings = @ \o step.warnings,
        !.stats = [totalServices |-> @.totalServices + step.stats.totalServices,
                   addedServices |-> @.addedServices + step.stats.addedServices,
                   updatedServices |-> @.updatedServices + step.stats.updatedServices,
                   skippedServices |-> @.skippedServices + step.stats.skippedServices,
                   conflictServices |-> @.conflictServices + step.stats.conflictServices]]

\* The loop of mergeMultipleConfigs from step i to its next await, or to
\* the end of the function (line 222).
multiAdvance(h, f, clock) ==
    IF f.i <= Len(f.configs)
    THEN mergeBegin(h, f, f.configs[f.i], f.acc, clock)
    ELSE [heap  |-> h,
          frame |-> [f EXCEPT !.pc = "done",
                              !.finalResult.config = Some(f.acc),
                              !.ret = Some([f.finalResult EXCEPT !.config = Some(f.acc)])]]

\* mergeMultipleConfigs from its call with several records to the first
\* await of its first step.
multiBegin(h, f, configs, clock) ==
    multiAdvance(h, [f EXCEPT !.configs = configs,
                              !.acc = configs[1],
                              !.finalResult = initialFinal(configs[1]),
                              !.i = 2],
                 clock)

\* mergeMultipleConfigs from the resumption after
\* `await this.mergeConfigs(...)` to its next await or its return.
resumeMultiple(h, f, clock) ==
    multiAdvance(h,
        [f EXCEPT !.finalResult = foldStep(@, f.result),
                  !.acc = IF IsSome(f.result.config) THEN f.result.config[1] ELSE @,
                  !.steps = Append(@, [source |-> f.source,
                                       target |-> f.target,
                                       result |-> f.result]),
                  !.i = @ + 1],
        clock)

(* ------------------------------------------------------------------ *)
(* Conflict preview and difference analysis                             *)
(* ------------------------------------------------------------------ *)

\* ConfigMerger.detectConflicts over the source's entries from index k on.
RECURSIVE detectFrom(_, _, _, _, _)
detectFrom(h, entries, targetServers, k, clock) ==
    IF k > Len(entries) THEN <<>>
    ELSE LET serviceName == entries[k][1]
             targetService == ReadServer(h, targetServers, serviceName)
             conflict == IF IsSome(targetService)
                         THEN detectServiceConflict(h, serviceName, entries[k][2],
                                                    targetService[1], clock)
                         ELSE None
         IN  conflict \o detectFrom(h, entries, targetServers, k + 1, clock)

detectConflicts(h, src, tgt, clock) ==
    detectFrom(h, h[h[src].mcpServers].entries, h[tgt].mcpServers, 1, clock)

\* Array.prototype.includes.
Includes(seq, x) == \E i \in 1..Len(seq) : seq[i] = x

\* analyzeDifferences whose onlyInSecond filter lost its negation.
analyzeDifferencesUnnegated(h, config1, config2) ==
    LET m1 == h[h[config1].mcpServers].entries
        m2 == h[h[config2].mcpServers].entries
        services1 == Keys(m1)
        services2 == Keys(m2)
        in1(name) == Includes(services1, name)
        in2(name) == Includes(services2, name)
        notIn2(name) == ~in2(name)
        common == SelectSeq(services1, in2)
        same(name) == areServicesEqual(h[OwnGet(m1, name)], h[OwnGet(m2, name)])
        differ(name) == ~same(name)
    IN  [onlyInFirst  |-> SelectSeq(services1, notIn2),
         onlyInSecond |-> SelectSeq(services2, in1),
         different    |-> SelectSeq(common, differ),
         identical    |-> SelectSeq(common, same)]

\* ConfigMerger.analyzeDifferences (Array.prototype.filter is SelectSeq).
analyzeDifferences(h, config1, config2) ==
    LET m1 == h[h[config1].mcpServers].entries
        m2 == h[h[config2].mcpServers].entries
        services1 == Keys(m1)
        services2 == Keys(m2)
        in1(name) == Includes(services1, name)
        in2(name) == Includes(services2, name)
        notIn1(name) == ~in1(name)
        notIn2(name) == ~in2(name)
        common == SelectSeq(services1, in2)
        same(name) == areServicesEqual(h[OwnGet(m1, name)], h[OwnGet(m2, name)])
        differ(name) == ~same(name)
    IN  [onlyInFirst  |-> SelectSeq(services1, notIn2),
         onlyInSecond |-> SelectSeq(services2, notIn1),
         different    |-> SelectSeq(common, differ),
         identical    |-> SelectSeq(common, same)]

(* ------------------------------------------------------------------ *)
(* Input records                                                        *)
(* ------------------------------------------------------------------ *)

Service(command, args, env, disabled, cwd, timeout, metadata) ==
    [kind |-> "service", command |-> Some(command), args |-> args, env |-> env,
     disabled |-> disabled, cwd |-> cwd, timeout |-> timeout,
     metadata |-> metadata]

Meta(description, lastModified) ==
    Some([description |-> description, lastModified |-> lastModified])

\* Descriptors the records are drawn from: a plain one, one that conflicts
\* with it on args and env, one that differs from it only in fields the
\* detector ignores, and one with an empty command.
dPlain == Service("node", Some(<<"a">>), None, None, None, None, None)

dOther ==
    Service("node", Some(<<"b">>), Some(<< <<"K", "1">> >>), None,
            Some("/w"), None, Meta(Some("d"), Some(0)))

dExtra ==
    Service("node", Some(<<"a">>), None, None, Some("/x"), Some(30000),
            Meta(None, Some(0)))

dEmpty == Service("", None, Some(<< <<"K", "2">>, <<"L", "1">> >>), Some(TRUE),
                  None, None, None)

Descriptors == {dPlain, dOther, dExtra, dEmpty}

\* "1.2.0", "1.10.0"
v120 == << <<"1">>, <<"2">>, <<"0">> >>

v1100 == << <<"1">>, <<"1", "0">>, <<"0">> >>

\* Version and metadata of a record.
Levels ==
    {[version |-> None, metadata |-> None],
     [version |-> Some(v120), metadata |-> Meta(Some("m"), Some(0))],
     [version |-> Some(v1100), metadata |-> None]}

\* The mcpServers of a record, as <<name, descriptor>> pairs in file order.
EntryLists(fsPool, tsPool) ==
    {<<>>}
    \cup {<< <<"fs", d>> >> : d \in fsPool}
    \cup {<< <<"toString", d>> >> : d \in tsPool}
    \cup {<< <<"fs", d>>, <<"toString", e>> >> : d \in fsPool, e \in tsPool}
    \cup {<< <<"toString", e>>, <<"fs", d>> >> : d \in fsPool, e \in tsPool}

Shapes(fsPool, tsPool, levels) ==
    {[entries |-> e, version |-> l.version, metadata |-> l.metadata] :
        e \in EntryLists(fsPool, tsPool), l \in levels}

\* The service cells of a record are allocated, then its mcpServers map,
\* then the record (as JSON.parse builds them).
RECURSIVE allocEntries(_, _, _)
allocEntries(h, entries, refs) ==
    IF entries = <<>> THEN [heap |-> h, refs |-> refs]
    ELSE allocEntries(Alloc(h, Head(entries)[2]), Tail(entries),
                      Append(refs, <<Head(entries)[1], NextAddr(h)>>))

allocConfig(h, shape) ==
    LET a == allocEntries(h, shape.entries, <<>>)
        h1 == Alloc(a.heap, [kind |-> "servers", entries |-> a.refs])
    IN  Alloc(h1, [kind |-> "config", mcpServers |-> Len(h1),
                   version |-> shape.version, metadata |-> shape.metadata])

\* The records handed to the engine: the config cells of the initial heap.
Inputs == {a \in DOMAIN heap0 : heap0[a].kind = "config"}

Procs == DOMAIN fr

InitWith(shapesA, shapesB, procs) ==
    /\ \E a \in shapesA, b \in shapesB :
          heap = allocConfig(allocConfig(<<ProtoCell>>, a), b)
    /\ heap0 = heap
    /\ now = 0
    /\ fr = [p \in procs |-> idleFrame]

Init ==
    InitWith(Shapes(Descriptors, {dPlain, dOther}, Levels),
             Shapes({dPlain, dOther}, {dPlain}, Levels), {1})

(* ------------------------------------------------------------------ *)
(* Actions                                                              *)
(* ------------------------------------------------------------------ *)

\* The millisecond clock advances.
Tick ==
    /\ now < MaxClock
    /\ now' = now + 1
    /\ UNCHANGED <<heap, heap0, fr>>

\* mergeConfigs is called with options from a set and runs to its first
\* await.
CallMergeConfigsWith(p, optionSet) ==
    /\ fr[p].pc = "idle"
    /\ \E src \in Inputs, tgt \in Inputs, options \in optionSet :
          LET r == mergeBegin(heap, [fr[p] EXCEPT !.op = "mergeConfigs",
                                                  !.options = options],
                              src, tgt, now)
          IN  /\ heap' = r.heap
              /\ fr' = [fr EXCEPT ![p] = r.frame]
    /\ UNCHANGED <<heap0, now>>

CallMergeConfigs(p) == CallMergeConfigsWith(p, OptionValues)

\* mergeConfigs resumes after `await this.mergeService(...)`.
ResumeService(p) ==
    /\ fr[p].pc = "awaitService"
    /\ LET r == resumeService(heap, fr[p], now)
       IN  /\ heap' = r.heap
           /\ fr' = [fr EXCEPT ![p] = r.frame]
    /\ UNCHANGED <<heap0, now>>

\* mergeConfigs resumes after `await this.configManager.validateConfig(...)`.
ResumeValidate(p) ==
    /\ fr[p].pc = "awaitValidate"
    /\ fr' = [fr EXCEPT ![p] = resumeValidate(heap, fr[p]).frame]
    /\ UNCHANGED <<heap, heap0, now>>

\* mergeMultipleConfigs is called with no record: it throws.
CallMultipleEmpty(p) ==
    /\ fr[p].pc = "idle"
    /\ \E options \in OptionValues :
          fr' = [fr EXCEPT ![p] = throwOnEmpty([@ EXCEPT
                                      !.op = "mergeMultipleConfigs",
                                      !.options = options])]
    /\ UNCHANGED <<heap, heap0, now>>

\* mergeMultipleConfigs is called with one record.
CallMultipleSingle(p) ==
    /\ fr[p].pc = "idle"
    /\ \E c \in Inputs, options \in OptionValues :
          fr' = [fr EXCEPT ![p] = [@ EXCEPT !.op = "mergeMultipleConfigs",
                                            !.options = options,
                                            !.configs = <<c>>,
                                            !.pc = "done",
                                            !.finalResult = singleResult(heap, c),
                                            !.ret = Some(singleResult(heap, c))]]
    /\ UNCHANGED <<heap, heap0, now>>

ConfigLists == UNION {[1..n -> Inputs] : n \in 2..MaxConfigs}

\* mergeMultipleConfigs is called with several records, drawn with the
\* options from two sets, and runs to the first await of its first step.
CallMultipleWith(p, lists, optionSet) ==
    /\ fr[p].pc = "idle"
    /\ \E configs \in lists, options \in optionSet :
          LET r == multiBegin(heap,
                       [fr[p] EXCEPT !.op = "mergeMultipleConfigs",
                                     !.options = options],
                       configs, now)
          IN  /\ heap' = r.heap
              /\ fr' = [fr EXCEPT ![p] = r.frame]
    /\ UNCHANGED <<heap0, now>>

CallMultiple(p) == CallMultipleWith(p, ConfigLists, OptionValues)

\* mergeMultipleConfigs resumes after `await this.mergeConfigs(...)`.
ResumeMultiple(p) ==
    /\ fr[p].pc = "returned"
    /\ fr[p].op = "mergeMultipleConfigs"
    /\ LET r == resumeMultiple(heap, fr[p], now)
       IN  /\ heap' = r.heap
           /\ fr' = [fr EXCEPT ![p] = r.frame]
    /\ UNCHANGED <<heap0, now>>

\* detectConflicts is called; it is synchronous.
CallDetectConflicts(p) ==
    /\ fr[p].pc = "idle"
    /\ \E src \in Inputs, tgt \in Inputs :
          fr' = [fr EXCEPT ![p] = [@ EXCEPT !.op = "detectConflicts",
                                            !.source = src, !.target = tgt,
                                            !.pc = "done",
                                            !.ret = Some(detectConflicts(heap, src, tgt, now))]]
    /\ UNCHANGED <<heap, heap0, now>>

\* analyzeDifferences is called; it is synchronous.
CallAnalyzeDifferences(p) ==
    /\ fr[p].pc = "idle"
    /\ \E c1 \in Inputs, c2 \in Inputs :
          fr' = [fr EXCEPT ![p] = [@ EXCEPT !.op = "analyzeDifferences",
                                            !.source = c1, !.target = c2,
                                            !.pc = "done",
                                            !.ret = Some(analyzeDifferences(heap, c1, c2))]]
    /\ UNCHANGED <<heap, heap0, now>>

Next ==
    \/ Tick
    \/ \E p \in Procs : CallMergeConfigs(p)
    \/ \E p \in Procs : ResumeService(p)
    \/ \E p \in Procs : ResumeValidate(p)
    \/ \E p \in Procs : CallDetectConflicts(p)
    \/ \E p \in Procs : CallAnalyzeDifferences(p)

Spec == Init /\ [][Next]_vars

\* The four operations, mergeMultipleConfigs included, over a smaller
\* choice of records.
InitMultiple ==
    InitWith(Shapes({dPlain, dOther}, {dPlain}, Levels),
             Shapes({dPlain, dEmpty}, {}, {[version |-> None, metadata |-> None]}),
             {1})

NextMultiple ==
    \/ Next
    \/ \E p \in Procs : CallMultipleEmpty(p)
    \/ \E p \in Procs : CallMultipleSingle(p)
    \/ \E p \in Procs : CallMultiple(p)
    \/ \E p \in Procs : ResumeMultiple(p)

SpecMultiple == InitMultiple /\ [][NextMultiple]_vars

\* The pairwise operations over records that differ in their version:
\* none, "", "1.2", "1.2.0", "1.10.0" and "1.2.0-b".
vEmpty == << <<>> >>

v12 == << <<"1">>, <<"2">> >>

v120b == << <<"1">>, <<"2">>, <<"0", "-", "b">> >>

VersionLevels ==
    {[version |-> v, metadata |-> None] :
        v \in {None, Some(vEmpty), Some(v12), Some(v120), Some(v1100), Some(v120b)}}

InitVersions ==
    InitWith(Shapes({dPlain}, {}, VersionLevels),
             Shapes({dOther}, {}, VersionLevels), {1})

SpecVersions == InitVersions /\ [][Next]_vars

\* The utilities called on their own.  Version strings are one or two
\* segments out of "0", "1", "2", "01", "10", 2^53 and 2^53 + 1, and "1.0.0",
\* "1.2.0" and "1.10.0".
seg2pow53 ==
    <<"9", "0", "0", "7", "1", "9", "9", "2", "5", "4", "7", "4", "0", "9", "9", "2">>

seg2pow53plus1 ==
    <<"9", "0", "0", "7", "1", "9", "9", "2", "5", "4", "7", "4", "0", "9", "9", "3">>

Segments ==
    {<<"0">>, <<"1">>, <<"2">>, <<"0", "1">>, <<"1", "0">>, seg2pow53, seg2pow53plus1}

v100 == << <<"1">>, <<"0">>, <<"0">> >>

VersionStrings ==
    {<<a>> : a \in Segments}
    \cup {<<a, b>> : a \in Segments, b \in Segments}
    \cup {v100, v120, v1100}

\* compareVersions is called; it is synchronous.
CallCompareVersions(p) ==
    /\ fr[p].pc = "idle"
    /\ \E version1 \in VersionStrings, version2 \in VersionStrings :
          fr' = [fr EXCEPT ![p] = [@ EXCEPT !.op = "compareVersions",
                                            !.args = <<version1, version2>>,
                                            !.pc = "done",
                                            !.ret = Some(compareVersions(version1, version2))]]
    /\ UNCHANGED <<heap, heap0, now>>

\* Argument lists: absent, empty, and lists over "a" and "b".
ArgLists ==
    {None, Some(<<>>), Some(<<"a">>), Some(<<"b">>), Some(<<"a", "b">>),
     Some(<<"b", "a">>), Some(<<"a", "a">>)}

\* areArraysEqual is called; it is synchronous.
CallAreArraysEqual(p) ==
    /\ fr[p].pc = "idle"
    /\ \E arr1 \in ArgLists, arr2 \in ArgLists :
          fr' = [fr EXCEPT ![p] = [@ EXCEPT !.op = "areArraysEqual",
                                            !.args = <<arr1, arr2>>,
                                            !.pc = "done",
                                            !.ret = Some(areArraysEqual(arr1, arr2))]]
    /\ UNCHANGED <<heap, heap0, now>>

\* Environment maps: absent, empty, and maps over the keys K and L in both
\* insertion orders.
EnvMaps ==
    {None, Some(<<>>),
     Some(<< <<"K", "1">> >>), Some(<< <<"K", "2">> >>), Some(<< <<"L", "1">> >>),
     Some(<< <<"K", "1">>, <<"L", "1">> >>), Some(<< <<"L", "1">>, <<"K", "1">> >>),
     Some(<< <<"K", "1">>, <<"L", "2">> >>)}

\* areObjectsEqual is called; it is synchronous.
CallAreObjectsEqual(p) ==
    /\ fr[p].pc = "idle"
    /\ \E obj1 \in EnvMaps, obj2 \in EnvMaps :
          fr' = [fr EXCEPT ![p] = [@ EXCEPT !.op = "areObjectsEqual",
                                            !.args = <<obj1, obj2>>,
                                            !.pc = "done",
                                            !.ret = Some(areObjectsEqual(obj1, obj2))]]
    /\ UNCHANGED <<heap, heap0, now>>

InitUtilities ==
    InitWith(Shapes({dPlain}, {}, {[version |-> None, metadata |-> None]}),
             Shapes({dOther}, {}, {[version |-> None, metadata |-> None]}), {1})

NextUtilities ==
    \/ \E p \in Procs : CallCompareVersions(p)
    \/ \E p \in Procs : CallAreArraysEqual(p)
    \/ \E p \in Procs : CallAreObjectsEqual(p)

SpecUtilities == InitUtilities /\ [][NextUtilities]_vars

\* The conflict detector called on its own, on two records of one service
\* each, over every combination of the fields it compares.
DetectorDescriptors ==
    {Service(command, args, env, disabled, None, None, None) :
        command \in {"node", "deno"},
        args \in {None, Some(<<>>), Some(<<"a">>)},
        env \in {None, Some(<<>>), Some(<< <<"K", "1">> >>)},
        disabled \in {None, Some(FALSE), Some(TRUE)}}

DetectorShapes ==
    {[entries |-> << <<"fs", d>> >>, version |-> None, metadata |-> None] :
        d \in DetectorDescriptors}

\* The descriptors of the records.
ServiceAddrs == {a \in DOMAIN heap0 : a # ProtoAddr /\ heap0[a].kind = "service"}

\* detectServiceConflict is called; it is synchronous.
CallDetectServiceConflict(p) ==
    /\ fr[p].pc = "idle"
    /\ \E sa \in ServiceAddrs, ta \in ServiceAddrs :
          fr' = [fr EXCEPT ![p] = [@ EXCEPT
                    !.op = "detectServiceConflict",
                    !.args = <<sa, ta>>,
                    !.pc = "done",
                    !.ret = Some(detectServiceConflict(heap, "fs", sa, ta, now))]]
    /\ UNCHANGED <<heap, heap0, now>>

InitDetector == InitWith(DetectorShapes, DetectorShapes, {1})

NextDetector ==
    \/ Tick
    \/ \E p \in Procs : CallDetectServiceConflict(p)

SpecDetector == InitDetector /\ [][NextDetector]_vars

\* Two invocations in flight at once: each of two callers makes one call
\* of mergeConfigs or mergeMultipleConfigs on the shared records, and the
\* event loop resumes either of them at every await.
ConcurrentOptions ==
    {[strategy |-> "merge", preserveMetadata |-> TRUE, validateResult |-> TRUE],
     [strategy |-> "overwrite", preserveMetadata |-> FALSE, validateResult |-> FALSE],
     [strategy |-> "prompt", preserveMetadata |-> FALSE, validateResult |-> TRUE]}

ConcurrentLists == [1..MaxConfigs -> Inputs]

InitConcurrent ==
    InitWith(Shapes({dOther}, {}, {[version |-> Some(v120),
                                    metadata |-> Meta(Some("m"), Some(0))]}),
             Shapes({dEmpty}, {}, {[version |-> None, metadata |-> None]}),
             {1, 2})

NextConcurrent ==
    \/ Tick
    \/ \E p \in Procs : CallMergeConfigsWith(p, ConcurrentOptions)
    \/ \E p \in Procs : ResumeService(p)
    \/ \E p \in Procs : ResumeValidate(p)
    \/ \E p \in Procs : CallMultipleWith(p, ConcurrentLists, ConcurrentOptions)
    \/ \E p \in Procs : ResumeMultiple(p)

SpecConcurrent == InitConcurrent /\ [][NextConcurrent]_vars

(* ------------------------------------------------------------------ *)
(* What a returned pairwise merge looks like                            *)
(* ------------------------------------------------------------------ *)

\* mergeConfigs has returned in process p (as the operation called, or as
\* a step of mergeMultipleConfigs that the reducer has not yet resumed).
Returned(p) == fr[p].pc = "returned"

SourceEntries(p) == heap[heap[fr[p].source].mcpServers].entries

TargetEntries(p) == heap[heap[fr[p].target].mcpServers].entries

MergedEntries(p) == heap[heap[fr[p].result.config[1]].mcpServers].entries

\* The descriptor an entry list holds for a name it owns.
Descriptor(entries, name) == heap[OwnGet(entries, name)]

\* Names in both records whose descriptors conflict.
Conflicting(p) ==
    {name \in KeySet(SourceEntries(p)) \cap KeySet(TargetEntries(p)) :
        conflictFields(Descriptor(SourceEntries(p), name),
                       Descriptor(TargetEntries(p), name)) # <<>>}

\* Names in both records whose descriptors do not conflict.
Agreeing(p) ==
    (KeySet(SourceEntries(p)) \cap KeySet(TargetEntries(p))) \ Conflicting(p)

\* Names the source has and the target lacks.
NewNames(p) == KeySet(SourceEntries(p)) \ KeySet(TargetEntries(p))

\* The conflicts of the result that name a service.
ConflictsNaming(p, name) ==
    {i \in 1..Len(fr[p].result.conflicts) : fr[p].result.conflicts[i].serviceName = name}

(* ------------------------------------------------------------------ *)
(* C1                                                                   *)
(* ------------------------------------------------------------------ *)

\* C1: when mergeConfigs returns, whatever the records and options,
\* stats.totalServices is the number of services of the source and equals
\* addedServices + updatedServices + skippedServices + conflictServices.
C1_StatsSum ==
    \A p \in Procs :
        Returned(p) =>
            LET st == fr[p].result.stats
            IN  /\ st.totalServices = Len(SourceEntries(p))
                /\ st.totalServices = st.addedServices + st.updatedServices
                                      + st.skippedServices + st.conflictServices

\* A merge of two services returned with one added and one deferred.
C1_Witness ==
    \E p \in Procs :
        /\ Returned(p)
        /\ fr[p].result.stats.totalServices = 2
        /\ fr[p].result.stats.addedServices = 1
        /\ fr[p].result.stats.conflictServices = 1

(* ------------------------------------------------------------------ *)
(* C2                                                                   *)
(* ------------------------------------------------------------------ *)

\* C2: when mergeConfigs returns, every service name the source has and
\* the target lacks is in the merged record with the source's descriptor,
\* no conflict names it and no skip warning names it.
C2_NewServicesAdded ==
    \A p \in Procs :
        Returned(p) =>
            \A name \in NewNames(p) :
                /\ name \in KeySet(MergedEntries(p))
                /\ Descriptor(MergedEntries(p), name) = Descriptor(SourceEntries(p), name)
                /\ ConflictsNaming(p, name) = {}
                /\ ~Includes(fr[p].result.warnings, <<"skipped", name>>)

(* ------------------------------------------------------------------ *)
(* C3                                                                   *)
(* ------------------------------------------------------------------ *)

\* C3: when mergeConfigs returns under strategy overwrite, the merged
\* record holds, for every name whose source and target descriptors
\* conflict, a descriptor equal to the source's.
C3_OverwriteExact ==
    \A p \in Procs :
        (Returned(p) /\ fr[p].options.strategy = "overwrite") =>
            \A name \in Conflicting(p) :
                /\ name \in KeySet(MergedEntries(p))
                /\ Descriptor(MergedEntries(p), name) = Descriptor(SourceEntries(p), name)

\* An overwrite of a target descriptor that has fields the source lacks.
C3_Witness ==
    \E p \in Procs :
        /\ Returned(p)
        /\ fr[p].options.strategy = "overwrite"
        /\ \E name \in Conflicting(p) :
              /\ IsSome(Descriptor(TargetEntries(p), name).cwd)
              /\ ~IsSome(Descriptor(SourceEntries(p), name).cwd)

(* ------------------------------------------------------------------ *)
(* C4                                                                   *)
(* ------------------------------------------------------------------ *)

\* C4: when mergeConfigs returns under strategy skip, the merged record
\* holds, for every name whose source and target descriptors conflict,
\* the target's descriptor: the same object, with the contents the target
\* had.
C4_SkipPreserves ==
    \A p \in Procs :
        (Returned(p) /\ fr[p].options.strategy = "skip") =>
            \A name \in Conflicting(p) :
                /\ name \in KeySet(MergedEntries(p))
                /\ OwnGet(MergedEntries(p), name) = OwnGet(TargetEntries(p), name)
                /\ Descriptor(MergedEntries(p), name) = Descriptor(TargetEntries(p), name)

\* A skip of a conflicting service returned.
C4_Witness ==
    \E p \in Procs :
        /\ Returned(p)
        /\ fr[p].options.strategy = "skip"
        /\ Conflicting(p) # {}
        /\ fr[p].result.stats.skippedServices >= 1

(* ------------------------------------------------------------------ *)
(* C5                                                                   *)
(* ------------------------------------------------------------------ *)

\* C5: when mergeConfigs returns under strategy prompt or an unrecognised
\* strategy, every name whose source and target descriptors conflict is
\* named by exactly one conflict of the result, and the merged record
\* holds the target's descriptor for it, as it was.
C5_DeferSurfaces ==
    \A p \in Procs :
        (Returned(p) /\ fr[p].options.strategy \in {"prompt", "unknown"}) =>
            \A name \in Conflicting(p) :
                /\ Cardinality(ConflictsNaming(p, name)) = 1
                /\ name \in KeySet(MergedEntries(p))
                /\ OwnGet(MergedEntries(p), name) = OwnGet(TargetEntries(p), name)
                /\ Descriptor(MergedEntries(p), name) = Descriptor(TargetEntries(p), name)

\* A merge returned with a deferred conflict between two own descriptors.
C5_Witness ==
    \E p \in Procs :
        /\ Returned(p)
        /\ fr[p].options.strategy = "prompt"
        /\ Conflicting(p) # {}
        /\ fr[p].result.conflicts # <<>>

(* ------------------------------------------------------------------ *)
(* C6                                                                   *)
(* ------------------------------------------------------------------ *)

\* The strategies that resolve a conflict into an update.
Updating == {"overwrite", "merge"}

\* C6: when mergeConfigs returns, addedServices counts the names the
\* target has no entry for, updatedServices the names without conflict
\* plus the conflicts resolved by overwrite or merge, skippedServices the
\* conflicts resolved by skip, conflictServices the deferred conflicts.
C6_StatsByOutcome ==
    \A p \in Procs :
        Returned(p) =>
            LET st == fr[p].result.stats
                strategy == fr[p].options.strategy
                conflicts == Cardinality(Conflicting(p))
            IN  /\ st.addedServices = Cardinality(NewNames(p))
                /\ st.updatedServices =
                       Cardinality(Agreeing(p))
                       + (IF strategy \in Updating THEN conflicts ELSE 0)
                /\ st.skippedServices = (IF strategy = "skip" THEN conflicts ELSE 0)
                /\ st.conflictServices =
                       (IF strategy \in Updating \cup {"skip"} THEN 0 ELSE conflicts)

(* ------------------------------------------------------------------ *)
(* C7                                                                   *)
(* ------------------------------------------------------------------ *)

\* mergeConfigs(R, R, options) has returned in process p.
SelfMerged(p) == Returned(p) /\ fr[p].source = fr[p].target

\* C7 as claimed: a merge of a record with itself returns no conflict and
\* a merged record structurally equal to it (same names, descriptors,
\* version and metadata), whatever the options.
C7_SelfMergeIdentity ==
    \A p \in Procs :
        SelfMerged(p) =>
            LET R == heap[fr[p].source]
                M == heap[fr[p].result.config[1]]
            IN  /\ fr[p].result.conflicts = <<>>
                /\ M.version = R.version
                /\ M.metadata = R.metadata
                /\ KeySet(MergedEntries(p)) = KeySet(SourceEntries(p))
                /\ \A name \in KeySet(SourceEntries(p)) :
                      Descriptor(MergedEntries(p), name) = Descriptor(SourceEntries(p), name)

\* What self-merge makes of a metadata object: untouched without
\* preserveMetadata, otherwise stamped with a reading of the clock.
StampedFrom(merged, original, preserveMetadata) ==
    IF ~preserveMetadata \/ ~IsSome(original) THEN merged = original
    ELSE /\ IsSome(merged)
         /\ merged[1].description = original[1].description
         /\ \E t \in 0..now : merged[1].lastModified = Some(t)

\* C7 amended: a merge of a record with itself returns no conflict and a
\* merged record with the same names, version and descriptors, except that
\* with preserveMetadata every metadata object the record has (its own and
\* each service's) carries lastModified = the clock reading of the merge;
\* without preserveMetadata the merged record equals the record.
C7_SelfMergeUpToStamp ==
    \A p \in Procs :
        SelfMerged(p) =>
            LET R == heap[fr[p].source]
                M == heap[fr[p].result.config[1]]
                pm == fr[p].options.preserveMetadata
            IN  /\ fr[p].result.conflicts = <<>>
                /\ M.version = R.version
                /\ StampedFrom(M.metadata, R.metadata, pm)
                /\ Keys(MergedEntries(p)) = Keys(SourceEntries(p))
                /\ \A name \in KeySet(SourceEntries(p)) :
                      LET m == Descriptor(MergedEntries(p), name)
                          r == Descriptor(SourceEntries(p), name)
                      IN  /\ [m EXCEPT !.metadata = None] = [r EXCEPT !.metadata = None]
                          /\ StampedFrom(m.metadata, r.metadata, pm)

\* A self-merge with preserveMetadata returned a record whose metadata and
\* a service's metadata carry a newer stamp than the record's.
C7_Witness ==
    \E p \in Procs :
        /\ SelfMerged(p)
        /\ fr[p].options.preserveMetadata
        /\ IsSome(heap[fr[p].source].metadata)
        /\ heap[fr[p].result.config[1]].metadata # heap[fr[p].source].metadata
        /\ \E name \in KeySet(SourceEntries(p)) :
              /\ IsSome(Descriptor(SourceEntries(p), name).metadata)
              /\ IsSome(Descriptor(SourceEntries(p), name).env)
              /\ Descriptor(MergedEntries(p), name) # Descriptor(SourceEntries(p), name)

(* ------------------------------------------------------------------ *)
(* C8                                                                   *)
(* ------------------------------------------------------------------ *)

\* C8: at every point of every operation (mergeConfigs,
\* mergeMultipleConfigs, detectConflicts, analyzeDifferences) each input
\* record, its mcpServers map and each of its descriptors, args and env
\* included, has the contents it had before the call.
C8_InputsUntouched == \A a \in DOMAIN heap0 : heap[a] = heap0[a]

\* mergeMultipleConfigs finished after writing added and updated services
\* into merged records.
C8_Witness ==
    \E p \in Procs :
        /\ fr[p].op = "mergeMultipleConfigs"
        /\ fr[p].pc = "done"
        /\ Len(fr[p].configs) >= 2
        /\ fr[p].finalResult.stats.addedServices >= 1
        /\ fr[p].finalResult.stats.updatedServices >= 1

(* ------------------------------------------------------------------ *)
(* C9                                                                   *)
(* ------------------------------------------------------------------ *)

Elems(seq) == {seq[i] : i \in 1..Len(seq)}

NoDuplicates(seq) == Cardinality(Elems(seq)) = Len(seq)

\* analyzeDifferences has returned in process p.
Analyzed(p) == fr[p].op = "analyzeDifferences" /\ fr[p].pc = "done"

\* C9: the four lists analyzeDifferences returns name no service twice,
\* are pairwise disjoint, and together hold exactly the names that occur
\* in the two records.
C9_Partition ==
    \A p \in Procs :
        Analyzed(p) =>
            LET d == fr[p].ret[1]
                lists == <<d.onlyInFirst, d.onlyInSecond, d.different, d.identical>>
            IN  /\ \A i \in 1..4 : NoDuplicates(lists[i])
                /\ \A i \in 1..4 : \A j \in 1..4 :
                      i # j => Elems(lists[i]) \cap Elems(lists[j]) = {}
                /\ UNION {Elems(lists[i]) : i \in 1..4}
                      = KeySet(SourceEntries(p)) \cup KeySet(TargetEntries(p))

\* An analysis returned a name only the second record has and a name whose
\* descriptors differ.
C9_Witness ==
    \E p \in Procs :
        /\ Analyzed(p)
        /\ fr[p].ret[1].onlyInSecond # <<>>
        /\ fr[p].ret[1].different # <<>>

(* ------------------------------------------------------------------ *)
(* C10                                                                  *)
(* ------------------------------------------------------------------ *)

\* C10: when mergeConfigs returns and validateResult is false, the result
\* has success = true, no error and a merged record, whatever the records
\* and the strategy and however many conflicts were found or deferred.
C10_ConflictIsNoError ==
    \A p \in Procs :
        (Returned(p) /\ ~fr[p].options.validateResult) =>
            /\ fr[p].result.success
            /\ fr[p].result.errors = <<>>
            /\ IsSome(fr[p].result.config)

\* A merge without validation returned with two deferred conflicts.
C10_Witness ==
    \E p \in Procs :
        /\ Returned(p)
        /\ ~fr[p].options.validateResult
        /\ Len(fr[p].result.conflicts) = 2

(* ------------------------------------------------------------------ *)
(* C11                                                                  *)
(* ------------------------------------------------------------------ *)

\* C11: when mergeConfigs returns with validateResult = true, the merged
\* record is returned and is the record the service loop built (every
\* source entry was processed, every name of the target is kept, and the
\* counters account for every source entry); if the validator finds it
\* invalid, success is false and errors is the validator's error list; if
\* the validator finds it valid, success is true and errors is empty.
C11_ValidationVerdict ==
    \A p \in Procs :
        (Returned(p) /\ fr[p].options.validateResult) =>
            LET r == fr[p].result
                v == validateConfig(heap, fr[p].mergedConfig)
            IN  /\ fr[p].validation = Some(v)
                /\ r.config = Some(fr[p].mergedConfig)
                /\ fr[p].k = Len(fr[p].entries) + 1
                /\ KeySet(TargetEntries(p)) \subseteq KeySet(MergedEntries(p))
                /\ r.stats.totalServices
                      = r.stats.addedServices + r.stats.updatedServices
                        + r.stats.skippedServices + r.stats.conflictServices
                /\ IF v.isValid
                   THEN r.success /\ r.errors = <<>>
                   ELSE ~r.success /\ r.errors = v.errors /\ r.errors # <<>>

\* A validated merge returned as failed, with the service it added (whose
\* command is empty) in the merged record.
C11_Witness ==
    \E p \in Procs :
        /\ Returned(p)
        /\ fr[p].options.validateResult
        /\ ~fr[p].result.success
        /\ fr[p].result.errors = << <<"command-required">> >>
        /\ fr[p].result.stats.addedServices = 1
        /\ "fs" \in KeySet(MergedEntries(p))
        /\ ~TruthyStr(Descriptor(MergedEntries(p), "fs").command)

(* ------------------------------------------------------------------ *)
(* C12                                                                  *)
(* ------------------------------------------------------------------ *)

\* The call of mergeMultipleConfigs in process p was given no record.
CalledWithNone(p) ==
    fr[p].op = "mergeMultipleConfigs" /\ fr[p].configs = <<>>

\* C12: mergeMultipleConfigs called with an empty list throws: the call
\* ends in the thrown state, no MergeResult is returned or built, and no
\* record is allocated or changed; and it throws in no other case.
C12_EmptyListThrows ==
    \A p \in Procs :
        /\ CalledWithNone(p) =>
              /\ fr[p].pc = "threw"
              /\ fr[p].ret = None
              /\ fr[p].finalResult = emptyResult
              /\ fr[p].result = emptyResult
              /\ heap = heap0
        /\ fr[p].pc = "threw" => CalledWithNone(p)

\* mergeMultipleConfigs was called with an empty list.
C12_Witness ==
    \E p \in Procs : CalledWithNone(p) /\ fr[p].pc = "threw"

(* ------------------------------------------------------------------ *)
(* C13                                                                  *)
(* ------------------------------------------------------------------ *)

\* The call of mergeMultipleConfigs in process p was given one record.
CalledWithOne(p) ==
    fr[p].op = "mergeMultipleConfigs" /\ Len(fr[p].configs) = 1

\* C13: mergeMultipleConfigs called with exactly one record, whatever the
\* options, has returned without merging anything: success is true, the
\* merged record is that very record and no record was changed or built,
\* conflicts, errors and warnings are empty, totalServices is the record's
\* number of services and the other four counters are 0.
C13_SingleRecord ==
    \A p \in Procs :
        CalledWithOne(p) =>
            /\ fr[p].pc = "done"
            /\ IsSome(fr[p].ret)
            /\ heap = heap0
            /\ LET r == fr[p].ret[1]
                   c == fr[p].configs[1]
               IN  /\ r.success
                   /\ r.config = Some(c)
                   /\ r.conflicts = <<>>
                   /\ r.errors = <<>>
                   /\ r.warnings = <<>>
                   /\ r.stats = [emptyStats EXCEPT !.totalServices =
                                     Len(heap0[heap0[c].mcpServers].entries)]

\* A single record whose service has an empty command, passed with
\* validateResult = true and strategy overwrite, came back as a success.
C13_Witness ==
    \E p \in Procs :
        /\ CalledWithOne(p)
        /\ fr[p].options.validateResult
        /\ fr[p].options.strategy = "overwrite"
        /\ fr[p].ret[1].success
        /\ fr[p].ret[1].stats.totalServices = 1
        /\ ~validateConfig(heap, fr[p].ret[1].config[1]).isValid

(* ------------------------------------------------------------------ *)
(* C14                                                                  *)
(* ------------------------------------------------------------------ *)

\* mergeMultipleConfigs has returned in process p from a list of several
\* records.
FoldDone(p) ==
    fr[p].op = "mergeMultipleConfigs" /\ fr[p].pc = "done" /\ Len(fr[p].configs) > 1

\* The lists of the first n steps, one after the other.
RECURSIVE ConcatOf(_, _, _)
ConcatOf(steps, field, n) ==
    IF n = 0 THEN <<>>
    ELSE ConcatOf(steps, field, n - 1)
         \o (CASE field = "conflicts" -> steps[n].result.conflicts
               [] field = "warnings" -> steps[n].result.warnings
               [] field = "errors" -> steps[n].result.errors)

\* The counters of the first n steps, added up.
RECURSIVE StatsOf(_, _)
StatsOf(steps, n) ==
    IF n = 0 THEN emptyStats
    ELSE LET rest == StatsOf(steps, n - 1)
             st == steps[n].result.stats
         IN  [totalServices    |-> rest.totalServices + st.totalServices,
              addedServices    |-> rest.addedServices + st.addedServices,
              updatedServices  |-> rest.updatedServices + st.updatedServices,
              skippedServices  |-> rest.skippedServices + st.skippedServices,
              conflictServices |-> rest.conflictServices + st.conflictServices]

\* C14: when mergeMultipleConfigs returns from N > 1 records, it has run
\* N - 1 pairwise merges; step i merged records[i] (as source) into the
\* merged record of step i - 1 (records[0] for the first step); the final
\* merged record is the last step's, the final conflicts, warnings and
\* errors are the steps' lists concatenated in step order, and every final
\* counter is the sum of the steps' counters.
C14_LeftFold ==
    \A p \in Procs :
        FoldDone(p) =>
            LET n == Len(fr[p].configs) - 1
                st == fr[p].steps
                r == fr[p].ret[1]
            IN  /\ Len(st) = n
                /\ \A i \in 1..n :
                      /\ st[i].source = fr[p].configs[i + 1]
                      /\ st[i].target = IF i = 1 THEN fr[p].configs[1]
                                        ELSE st[i - 1].result.config[1]
                /\ r.config = st[n].result.config
                /\ r.conflicts = ConcatOf(st, "conflicts", n)
                /\ r.warnings = ConcatOf(st, "warnings", n)
                /\ r.errors = ConcatOf(st, "errors", n)
                /\ r.stats = StatsOf(st, n)

\* A fold of three records returned in which both steps found a conflict,
\* emitted a warning and reported an error.
C14_Witness ==
    \E p \in Procs :
        /\ FoldDone(p)
        /\ Len(fr[p].steps) = 2
        /\ \A i \in 1..2 :
              /\ fr[p].steps[i].result.conflicts # <<>>
              /\ fr[p].steps[i].result.warnings # <<>>
              /\ fr[p].steps[i].result.errors # <<>>
        /\ fr[p].ret[1].stats.conflictServices = 2

(* ------------------------------------------------------------------ *)
(* C15                                                                  *)
(* ------------------------------------------------------------------ *)

\* mergeMultipleConfigs is running or has returned in process p from a
\* list of several records.
Folding(p) ==
    fr[p].op = "mergeMultipleConfigs" /\ Len(fr[p].configs) > 1

\* C15: throughout a mergeMultipleConfigs call over N > 1 records the
\* accumulated success is the conjunction of the success of the steps
\* awaited so far, so a failed step keeps it false whatever later steps
\* return; the success returned is the conjunction over all N - 1 steps.
C15_SuccessIsConjunction ==
    \A p \in Procs :
        Folding(p) =>
            LET allOk == \A i \in 1..Len(fr[p].steps) : fr[p].steps[i].result.success
            IN  /\ fr[p].finalResult.success = allOk
                /\ fr[p].pc = "done" =>
                      /\ Len(fr[p].steps) = Len(fr[p].configs) - 1
                      /\ fr[p].ret[1].success = allOk

\* A fold of three records returned as failed although its last step
\* succeeded: its first step had failed.
C15_Witness ==
    \E p \in Procs :
        /\ FoldDone(p)
        /\ Len(fr[p].steps) = 2
        /\ ~fr[p].steps[1].result.success
        /\ fr[p].steps[2].result.success
        /\ ~fr[p].ret[1].success

(* ------------------------------------------------------------------ *)
(* C16                                                                  *)
(* ------------------------------------------------------------------ *)

\* detectConflicts has returned in process p.
Detected(p) == fr[p].op = "detectConflicts" /\ fr[p].pc = "done"

\* The service names of a list of conflicts, in its order.
ConflictNames(conflicts) ==
    [i \in 1..Len(conflicts) |-> conflicts[i].serviceName]

\* The source's names, in the source's order, that the target has too with
\* a descriptor differing in command, args, env or disabled.
ExpectedConflictNames(p) ==
    LET conflicting(name) == name \in Conflicting(p)
    IN  SelectSeq(Keys(SourceEntries(p)), conflicting)

\* C16: detectConflicts(source, target) returns one conflict for each
\* service name that both records have with descriptors differing in
\* command, args, env or disabled, in the source's order, each carrying
\* the two descriptors; it returns none for a name only one record has or
\* whose descriptors agree; and it changes neither record.
C16_DetectExact ==
    \A p \in Procs :
        Detected(p) =>
            LET conflicts == fr[p].ret[1]
            IN  /\ ConflictNames(conflicts) = ExpectedConflictNames(p)
                /\ \A i \in 1..Len(conflicts) :
                      /\ conflicts[i].sourceConfig
                            = OwnGet(SourceEntries(p), conflicts[i].serviceName)
                      /\ conflicts[i].targetConfig
                            = OwnGet(TargetEntries(p), conflicts[i].serviceName)
                /\ \A a \in DOMAIN heap0 : heap[a] = heap0[a]

(* ------------------------------------------------------------------ *)
(* C17                                                                  *)
(* ------------------------------------------------------------------ *)

\* An invocation run alone: nothing else happens between its call and its
\* return, so every resumption follows on the heap the previous one left.
RECURSIVE runAlone(_, _, _)
runAlone(h, f, clock) ==
    IF f.pc = "awaitService"
    THEN LET r == resumeService(h, f, clock) IN runAlone(r.heap, r.frame, clock)
    ELSE IF f.pc = "awaitValidate"
    THEN LET r == resumeValidate(h, f) IN runAlone(r.heap, r.frame, clock)
    ELSE IF f.pc = "returned" /\ f.op = "mergeMultipleConfigs"
    THEN LET r == resumeMultiple(h, f, clock) IN runAlone(r.heap, r.frame, clock)
    ELSE [heap |-> h, frame |-> f]

\* The call process p made, run alone on the records as they were given.
Alone(p) ==
    LET f == [idleFrame EXCEPT !.op = fr[p].op, !.options = fr[p].options]
    IN  IF fr[p].op = "mergeConfigs"
        THEN LET r == mergeBegin(heap0, f, fr[p].source, fr[p].target, 0)
             IN  runAlone(r.heap, r.frame, 0)
        ELSE LET r == multiBegin(heap0, f, fr[p].configs, 0)
             IN  runAlone(r.heap, r.frame, 0)

\* The invocation of process p has returned its MergeResult.
Finished(p) ==
    \/ fr[p].op = "mergeConfigs" /\ fr[p].pc = "returned"
    \/ fr[p].op = "mergeMultipleConfigs" /\ fr[p].pc = "done"
       /\ Len(fr[p].configs) > 1

\* The MergeResult an invocation returns.
Outcome(f) == IF f.op = "mergeConfigs" THEN f.result ELSE f.ret[1]

\* Values as a caller sees them: objects by content instead of by heap
\* address, and without what is read off the clock (lastModified stamps
\* and the clock part of a conflict id), which differs from run to run.
ViewMeta(m) ==
    IF IsSome(m) THEN Some([description |-> m[1].description]) ELSE None

ViewService(cell) == [cell EXCEPT !.metadata = ViewMeta(@)]

ViewConfig(h, c) ==
    [version  |-> h[c].version,
     metadata |-> ViewMeta(h[c].metadata),
     services |-> [i \in 1..Len(h[h[c].mcpServers].entries) |->
                      <<h[h[c].mcpServers].entries[i][1],
                        ViewService(h[h[h[c].mcpServers].entries[i][2]])>>]]

ViewConflict(h, c) ==
    [id           |-> c.id[1],
     serviceName  |-> c.serviceName,
     type         |-> c.type,
     description  |-> c.description,
     sourceConfig |-> ViewService(h[c.sourceConfig]),
     targetConfig |-> ViewService(h[c.targetConfig])]

ViewResult(h, r) ==
    [success   |-> r.success,
     config    |-> IF IsSome(r.config) THEN Some(ViewConfig(h, r.config[1])) ELSE None,
     conflicts |-> [i \in 1..Len(r.conflicts) |-> ViewConflict(h, r.conflicts[i])],
     errors    |-> r.errors,
     warnings  |-> r.warnings,
     stats     |-> r.stats]

\* C17: with two invocations of mergeConfigs or mergeMultipleConfigs in
\* flight on the same records and resumed in any order at their awaits,
\* an invocation that has returned has the result it returns when run
\* alone on those records (clock readings apart), and the records the
\* callers passed are never changed.
C17_Isolation ==
    /\ \A a \in DOMAIN heap0 : heap[a] = heap0[a]
    /\ \A p \in Procs :
          Finished(p) =>
              ViewResult(heap, Outcome(fr[p]))
                  = ViewResult(Alone(p).heap, Outcome(Alone(p).frame))

\* Two mergeMultipleConfigs invocations over three records have returned
\* after running interleaved step by step (the merged records of their
\* steps were built alternately), each with an updated service.
C17_Witness ==
    /\ Procs = {1, 2}
    /\ \A p \in Procs :
          /\ Finished(p)
          /\ Len(fr[p].steps) = 2
          /\ fr[p].ret[1].stats.updatedServices > 0
    /\ fr[1].steps[1].result.config[1] < fr[2].steps[1].result.config[1]
    /\ fr[2].steps[1].result.config[1] < fr[1].steps[2].result.config[1]
    /\ fr[1].steps[2].result.config[1] < fr[2].steps[2].result.config[1]

(* ------------------------------------------------------------------ *)
(* C18                                                                  *)
(* ------------------------------------------------------------------ *)

\* The strategies that resolve a conflict instead of deferring it.
Resolving == {"overwrite", "skip", "merge"}

\* The warning mergeService emits for a service under a strategy.
ResolutionWarning(strategy, name) ==
    CASE strategy = "overwrite" -> <<"overwritten", name>>
      [] strategy = "skip" -> <<"skipped", name>>
      [] strategy = "merge" -> <<"forced-merge", name>>

\* The result of process p carries a warning that names the service.
WarnsAbout(p, name) ==
    \E i \in 1..Len(fr[p].result.warnings) :
        /\ Len(fr[p].result.warnings[i]) = 2
        /\ fr[p].result.warnings[i][2] = name

\* C18: when mergeConfigs returns, every service that both records have
\* with conflicting descriptors and that strategy overwrite, skip or merge
\* resolved has the warning of that strategy in warnings; and with
\* validateResult = false a warning names a service only if it conflicted
\* and the strategy is one of these three: services the target lacks,
\* updates without conflict and deferred conflicts are not warned about.
C18_WarningsIffResolved ==
    \A p \in Procs :
        Returned(p) =>
            \A name \in KeySet(SourceEntries(p)) :
                LET resolved == /\ name \in Conflicting(p)
                                /\ fr[p].options.strategy \in Resolving
                IN  /\ resolved =>
                          Includes(fr[p].result.warnings,
                                   ResolutionWarning(fr[p].options.strategy, name))
                    /\ ~fr[p].options.validateResult =>
                          (WarnsAbout(p, name) <=> resolved)

(* ------------------------------------------------------------------ *)
(* C19                                                                  *)
(* ------------------------------------------------------------------ *)

\* The conflicts the operation of process p has collected so far, one per
\* detection.
Produced(p) ==
    IF fr[p].op = "mergeMultipleConfigs" THEN fr[p].finalResult.conflicts
    ELSE IF fr[p].op = "mergeConfigs" THEN fr[p].result.conflicts
    ELSE IF fr[p].op = "detectConflicts" /\ fr[p].pc = "done" THEN fr[p].ret[1]
    ELSE <<>>

\* C19: the conflicts an operation has produced, each by its own
\* detection, have pairwise different ids, whatever the clock read at the
\* detections (two steps of one mergeMultipleConfigs call that find a
\* conflict for the same service name included).
C19_IdsUnique ==
    \A p \in Procs :
        \A i, j \in 1..Len(Produced(p)) :
            i # j => Produced(p)[i].id # Produced(p)[j].id

(* ------------------------------------------------------------------ *)
(* C20                                                                  *)
(* ------------------------------------------------------------------ *)

SourceVersion(p) == heap[fr[p].source].version

TargetVersion(p) == heap[fr[p].target].version

MergedVersion(p) == heap[fr[p].result.config[1]].version

\* C20 as stated: when mergeConfigs returns, the merged record's version
\* is the source's if the source has a version and either the target has
\* none or compareVersions(source.version, target.version) > 0; otherwise
\* it is the target's (absent if the target has none).
C20_VersionWhenPresent ==
    \A p \in Procs :
        Returned(p) =>
            MergedVersion(p) =
                IF /\ IsSome(SourceVersion(p))
                   /\ \/ ~IsSome(TargetVersion(p))
                      \/ compareVersions(SourceVersion(p)[1], TargetVersion(p)[1]) > 0
                THEN SourceVersion(p)
                ELSE TargetVersion(p)

\* A version that is a non-empty string.
NonEmptyVersion(v) == IsSome(v) /\ v[1] # vEmpty

\* C20, amended: when mergeConfigs returns, the merged record's version
\* is the source's if the source has a non-empty version and either the
\* target has none or an empty one, or compareVersions(source.version,
\* target.version) > 0; otherwise it is the target's (absent if the
\* target has none, empty if the target's is empty).
C20_VersionWhenNonEmpty ==
    \A p \in Procs :
        Returned(p) =>
            MergedVersion(p) =
                IF /\ NonEmptyVersion(SourceVersion(p))
                   /\ \/ ~NonEmptyVersion(TargetVersion(p))
                      \/ compareVersions(SourceVersion(p)[1], TargetVersion(p)[1]) > 0
                THEN SourceVersion(p)
                ELSE TargetVersion(p)

\* A merge returned whose source has the version "" and whose target has
\* none: the merged record has none.
C20_Witness ==
    \E p \in Procs :
        /\ Returned(p)
        /\ SourceVersion(p) = Some(vEmpty)
        /\ ~IsSome(TargetVersion(p))
        /\ ~IsSome(MergedVersion(p))

(* ------------------------------------------------------------------ *)
(* C21                                                                  *)
(* ------------------------------------------------------------------ *)

\* Order of two strings of digits by the integers they denote: without
\* leading zeros, the longer is the greater, and two of the same length
\* are ordered by their first differing digit.
DigitsLess(a, b) ==
    LET x == StripZeros(a)
        y == StripZeros(b)
    IN  \/ Len(x) < Len(y)
        \/ /\ Len(x) = Len(y)
           /\ \E k \in 1..Len(x) :
                 /\ DigitVal(x[k]) < DigitVal(y[k])
                 /\ \A m \in 1..(k - 1) : x[m] = y[m]

\* Segment i of a version, a missing trailing segment being 0.
SegmentOrZero(version, i) == IF i > Len(version) THEN <<"0">> ELSE version[i]

\* -1, 0 or 1 by the first position at which the two versions differ as
\* integers.
RECURSIVE NumericOrder(_, _, _)
NumericOrder(v1, v2, i) ==
    IF i > Len(v1) /\ i > Len(v2) THEN 0
    ELSE IF DigitsLess(SegmentOrZero(v2, i), SegmentOrZero(v1, i)) THEN 1
    ELSE IF DigitsLess(SegmentOrZero(v1, i), SegmentOrZero(v2, i)) THEN -1
    ELSE NumericOrder(v1, v2, i + 1)

Compared(p) == fr[p].op = "compareVersions" /\ fr[p].pc = "done"

\* C21: for dotted strings of non-negative integers v1 and v2,
\* compareVersions(v1, v2) is -1, 0 or 1 by the numeric comparison of the
\* first segment position at which they differ, missing trailing segments
\* reading as 0, and compareVersions(v2, v1) is its negation.
C21_NumericOrder ==
    \A p \in Procs :
        Compared(p) =>
            /\ fr[p].ret[1] = NumericOrder(fr[p].args[1], fr[p].args[2], 1)
            /\ compareVersions(fr[p].args[2], fr[p].args[1]) = 0 - fr[p].ret[1]

(* ------------------------------------------------------------------ *)
(* C22                                                                  *)
(* ------------------------------------------------------------------ *)

\* The elements of an argument list, an absent list having none (the
\* documented default).
ElementsOf(arr) == IF IsSome(arr) THEN arr[1] ELSE <<>>

ArraysCompared(p) == fr[p].op = "areArraysEqual" /\ fr[p].pc = "done"

\* C22: areArraysEqual returns true iff the two lists have the same length
\* and equal elements at every position, an absent list counting as an
\* empty one: absent and empty are equal, and the same elements in a
\* different order are not.
C22_ArgsEqual ==
    \A p \in Procs :
        ArraysCompared(p) =>
            (fr[p].ret[1] <=> ElementsOf(fr[p].args[1]) = ElementsOf(fr[p].args[2]))

(* ------------------------------------------------------------------ *)
(* C23                                                                  *)
(* ------------------------------------------------------------------ *)

\* An environment map as the set of its <<key, value>> bindings, an absent
\* env having none (the documented default).
BindingsOf(env) ==
    IF IsSome(env) THEN {env[1][i] : i \in 1..Len(env[1])} ELSE {}

ObjectsCompared(p) == fr[p].op = "areObjectsEqual" /\ fr[p].pc = "done"

\* C23: areObjectsEqual returns true iff the two environment maps have
\* the same keys and every key maps to the same string in both, whatever
\* the order of the keys, an absent env counting as the empty map.
C23_EnvEqual ==
    \A p \in Procs :
        ObjectsCompared(p) =>
            (fr[p].ret[1] <=> BindingsOf(fr[p].args[1]) = BindingsOf(fr[p].args[2]))

(* ------------------------------------------------------------------ *)
(* C24                                                                  *)
(* ------------------------------------------------------------------ *)

\* The compared fields on which two descriptors differ, args and env being
\* read with their documented defaults (an absent list is empty, an absent
\* map is empty).
DifferingFields(s, t) ==
    {field \in {"command", "args", "env", "disabled"} :
        CASE field = "command" -> s.command # t.command
          [] field = "args" -> ElementsOf(s.args) # ElementsOf(t.args)
          [] field = "env" -> BindingsOf(s.env) # BindingsOf(t.env)
          [] field = "disabled" -> s.disabled # t.disabled}

DetectorReturned(p) == fr[p].op = "detectServiceConflict" /\ fr[p].pc = "done"

\* C24: detectServiceConflict returns no conflict iff the two descriptors
\* agree on command, args, env and disabled; otherwise it returns one
\* conflict of type different-config for the service, that lists exactly
\* the fields among these four that differ and holds the two descriptors
\* it was given.
C24_DetectorExact ==
    \A p \in Procs :
        DetectorReturned(p) =>
            LET sa == fr[p].args[1]
                ta == fr[p].args[2]
                differing == DifferingFields(heap[sa], heap[ta])
                conflict == fr[p].ret[1]
            IN  IF differing = {}
                THEN ~IsSome(conflict)
                ELSE /\ IsSome(conflict)
                     /\ conflict[1].type = "different-config"
                     /\ conflict[1].serviceName = "fs"
                     /\ Elems(conflict[1].description) = differing
                     /\ NoDuplicates(conflict[1].description)
                     /\ conflict[1].sourceConfig = sa
                     /\ conflict[1].targetConfig = ta
                     /\ conflict[1].values = [source |-> sa, target |-> ta]

(* ------------------------------------------------------------------ *)
(* C25                                                                  *)
(* ------------------------------------------------------------------ *)

\* Two descriptors with the same command, args, env and disabled.
SameComparedFields(s, t) ==
    /\ s.command = t.command
    /\ s.args = t.args
    /\ s.env = t.env
    /\ s.disabled = t.disabled

\* Names both records of process p have, with descriptors that differ at
\* most in workingDirectory, timeout and metadata.
UncomparedOnly(p) ==
    {name \in KeySet(SourceEntries(p)) \cap KeySet(TargetEntries(p)) :
        SameComparedFields(Descriptor(SourceEntries(p), name),
                           Descriptor(TargetEntries(p), name))}

\* C25: for a service whose two descriptors differ only in
\* workingDirectory, timeout or metadata, areServicesEqual is true,
\* analyzeDifferences lists it as identical, detectConflicts returns no
\* conflict for it, and mergeConfigs under every strategy stores a fresh
\* field-wise merge of it as an update, without conflict or warning.
C25_UncomparedFieldsIgnored ==
    \A p \in Procs :
        (fr[p].op \in {"mergeConfigs", "detectConflicts", "analyzeDifferences"}
         /\ fr[p].pc \in {"returned", "done"}) =>
            \A name \in UncomparedOnly(p) :
                LET s == Descriptor(SourceEntries(p), name)
                    t == Descriptor(TargetEntries(p), name)
                IN  /\ areServicesEqual(s, t)
                    /\ Analyzed(p) =>
                          /\ Includes(fr[p].ret[1].identical, name)
                          /\ ~Includes(fr[p].ret[1].different, name)
                    /\ Detected(p) =>
                          \A i \in 1..Len(fr[p].ret[1]) :
                              fr[p].ret[1][i].serviceName # name
                    /\ Returned(p) =>
                          /\ ConflictsNaming(p, name) = {}
                          /\ ~WarnsAbout(p, name)
                          /\ fr[p].result.stats.updatedServices >= 1
                          /\ OwnGet(MergedEntries(p), name) \notin DOMAIN heap0
                          /\ SameComparedFields(Descriptor(MergedEntries(p), name), s)
                          /\ Descriptor(MergedEntries(p), name).cwd
                                = (IF IsSome(s.cwd) THEN s.cwd ELSE t.cwd)
                          /\ Descriptor(MergedEntries(p), name).timeout
                                = (IF IsSome(s.timeout) THEN s.timeout ELSE t.timeout)

\* The working directories, timeouts or metadata of the two descriptors of
\* a name differ.
DiffersOutside(p, name) ==
    LET s == Descriptor(SourceEntries(p), name)
        t == Descriptor(TargetEntries(p), name)
    IN  s.cwd # t.cwd /\ s.timeout # t.timeout /\ s.metadata # t.metadata

\* A merge under strategy skip returned for a service whose descriptors
\* differ in working directory, timeout and metadata only.
C25_Witness ==
    \E p \in Procs :
        /\ Returned(p)
        /\ fr[p].op = "mergeConfigs"
        /\ fr[p].options.strategy = "skip"
        /\ \E name \in UncomparedOnly(p) : DiffersOutside(p, name)

(* ------------------------------------------------------------------ *)
(* C26                                                                  *)
(* ------------------------------------------------------------------ *)

\* The names of both records that mergeConfigs merges field-wise: those
\* without conflict, and under strategy merge those with one.
FieldWiseMerged(p) ==
    Agreeing(p)
    \cup (IF fr[p].options.strategy = "merge" THEN Conflicting(p) ELSE {})

\* The source's value of a field when it has one, else the target's.
SourceElseTarget(sv, tv) == IF IsSome(sv) THEN sv ELSE tv

\* The keys of an environment map.
EnvKeys(env) == {b[1] : b \in BindingsOf(env)}

\* Key-wise union of two environment maps, the source's binding winning.
EnvUnion(senv, tenv) ==
    BindingsOf(senv) \cup {b \in BindingsOf(tenv) : b[1] \notin EnvKeys(senv)}

\* The fields other than env and metadata follow the source when it has
\* them, env is the key-wise union, and the result is a fresh descriptor
\* counted as an update.
MergedFieldWise(p, name) ==
    LET s == Descriptor(SourceEntries(p), name)
        t == Descriptor(TargetEntries(p), name)
        m == Descriptor(MergedEntries(p), name)
    IN  /\ m.command = SourceElseTarget(s.command, t.command)
        /\ m.args = SourceElseTarget(s.args, t.args)
        /\ m.disabled = SourceElseTarget(s.disabled, t.disabled)
        /\ m.cwd = SourceElseTarget(s.cwd, t.cwd)
        /\ m.timeout = SourceElseTarget(s.timeout, t.timeout)
        /\ BindingsOf(m.env) = EnvUnion(s.env, t.env)
        /\ Cardinality(BindingsOf(m.env)) = Cardinality(EnvKeys(m.env))
        /\ OwnGet(MergedEntries(p), name) \notin DOMAIN heap0
        /\ fr[p].result.stats.updatedServices >= 1

\* C26 as claimed: a service merged field-wise (no conflict, or a conflict
\* under strategy merge) has in the merged record, for every field other
\* than env, metadata included, the source's value when the source has
\* the field and the target's otherwise, and as env the key-wise union
\* with the source's value for shared keys; it is stored as an update.
C26_FieldWiseMerge ==
    \A p \in Procs :
        (Returned(p) /\ fr[p].op = "mergeConfigs") =>
            \A name \in FieldWiseMerged(p) :
                /\ MergedFieldWise(p, name)
                /\ Descriptor(MergedEntries(p), name).metadata
                      = SourceElseTarget(Descriptor(SourceEntries(p), name).metadata,
                                         Descriptor(TargetEntries(p), name).metadata)

\* The metadata of a field-wise merge: the source's else the target's
\* without preserveMetadata; with it, none when both lack it, otherwise the
\* target's entries overridden by the source's and lastModified set to a
\* reading of the clock.
MetadataCombined(m, s, t, preserveMetadata) ==
    IF ~preserveMetadata THEN m = SourceElseTarget(s, t)
    ELSE IF ~IsSome(s) /\ ~IsSome(t) THEN ~IsSome(m)
    ELSE /\ IsSome(m)
         /\ m[1].description =
               (IF IsSome(s) /\ IsSome(s[1].description) THEN s[1].description
                ELSE IF IsSome(t) THEN t[1].description
                ELSE None)
         /\ \E reading \in 0..now : m[1].lastModified = Some(reading)

\* C26 amended: as claimed for every field other than env and metadata
\* and for env; the metadata is the source's else the target's only
\* without preserveMetadata, and with preserveMetadata it is the two
\* metadata objects combined and stamped with the time of the merge.
C26_FieldWiseMergeCombiningMetadata ==
    \A p \in Procs :
        (Returned(p) /\ fr[p].op = "mergeConfigs") =>
            \A name \in FieldWiseMerged(p) :
                /\ MergedFieldWise(p, name)
                /\ MetadataCombined(Descriptor(MergedEntries(p), name).metadata,
                                    Descriptor(SourceEntries(p), name).metadata,
                                    Descriptor(TargetEntries(p), name).metadata,
                                    fr[p].options.preserveMetadata)

\* A forced merge with preserveMetadata returned for a service whose two
\* env maps share a key with different values, whose target has a working
\* directory the source lacks, and whose target alone has a description.
C26_Witness ==
    \E p \in Procs :
        /\ Returned(p)
        /\ fr[p].op = "mergeConfigs"
        /\ fr[p].options.strategy = "merge"
        /\ fr[p].options.preserveMetadata
        /\ \E name \in Conflicting(p) :
              LET s == Descriptor(SourceEntries(p), name)
                  t == Descriptor(TargetEntries(p), name)
              IN  /\ \E b \in BindingsOf(s.env), c \in BindingsOf(t.env) :
                        b[1] = c[1] /\ b[2] # c[2]
                  /\ IsSome(t.cwd) /\ ~IsSome(s.cwd)
                  /\ IsSome(t.metadata) /\ ~IsSome(s.metadata)

(* ------------------------------------------------------------------ *)
(* C27                                                                  *)
(* ------------------------------------------------------------------ *)

\* Names the target has and the source lacks.
TargetOnlyNames(p) == KeySet(TargetEntries(p)) \ KeySet(SourceEntries(p))

\* C27: when mergeConfigs returns, under every strategy, the service names
\* of the merged record are exactly those of the source together with
\* those of the target, and every name only the target has keeps the
\* target's descriptor.
C27_NamesAreUnion ==
    \A p \in Procs :
        (Returned(p) /\ fr[p].op = "mergeConfigs") =>
            /\ KeySet(MergedEntries(p))
                  = KeySet(SourceEntries(p)) \cup KeySet(TargetEntries(p))
            /\ \A name \in TargetOnlyNames(p) :
                  /\ OwnGet(MergedEntries(p), name) = OwnGet(TargetEntries(p), name)
                  /\ Descriptor(MergedEntries(p), name) = heap0[OwnGet(TargetEntries(p), name)]

(* ------------------------------------------------------------------ *)
(* C28                                                                  *)
(* ------------------------------------------------------------------ *)

\* C28: when mergeConfigs returns under strategy overwrite, skip or merge,
\* its conflicts list is empty and stats.conflictServices is 0, whatever
\* the records; a result with conflicts comes from strategy prompt or an
\* unrecognised strategy only.
C28_ResolvingStrategiesReturnNoConflict ==
    \A p \in Procs :
        (Returned(p) /\ fr[p].op = "mergeConfigs") =>
            /\ fr[p].options.strategy \in Resolving =>
                  /\ fr[p].result.conflicts = <<>>
                  /\ fr[p].result.stats.conflictServices = 0
            /\ fr[p].result.conflicts # <<>> =>
                  fr[p].options.strategy \in {"prompt", "unknown"}

\* The merge the command handler requests (strategy merge, preserveMetadata,
\* validateResult) returned for two records with a conflicting service.
C28_Witness ==
    \E p \in Procs :
        /\ Returned(p)
        /\ fr[p].op = "mergeConfigs"
        /\ fr[p].options = [strategy |-> "merge", preserveMetadata |-> TRUE,
                            validateResult |-> TRUE]
        /\ Conflicting(p) # {}
        /\ fr[p].result.conflicts = <<>>

(* ------------------------------------------------------------------ *)
(* C29                                                                  *)
(* ------------------------------------------------------------------ *)

\* The services of the record at address c.
EntriesOf(c) == heap[heap[c].mcpServers].entries

\* The positions of the list of process p whose record has the name.
Holders(p, name) ==
    {i \in 1..Len(fr[p].configs) : name \in KeySet(EntriesOf(fr[p].configs[i]))}

FirstHolder(p, name) ==
    CHOOSE i \in Holders(p, name) : \A j \in Holders(p, name) : i <= j

LastHolder(p, name) ==
    CHOOSE i \in Holders(p, name) : \A j \in Holders(p, name) : i >= j

\* Two descriptors have the same command, args, env contents and disabled.
ComparedFieldsEqual(a, b) ==
    /\ a.command = b.command
    /\ a.args = b.args
    /\ BindingsOf(a.env) = BindingsOf(b.env)
    /\ IsSome(a.env) = IsSome(b.env)
    /\ a.disabled = b.disabled

\* The record mergeMultipleConfigs returned in process p.
FinalEntries(p) == EntriesOf(fr[p].ret[1].config[1])

\* C29: mergeMultipleConfigs over more than one record under strategy skip
\* or prompt returns a record in which every service has the command,
\* args, env and disabled of the first record of the list that has the
\* service, whatever the later records hold for it.
C29_FirstRecordWins ==
    \A p \in Procs :
        (FoldDone(p) /\ fr[p].options.strategy \in {"skip", "prompt"}) =>
            \A name \in KeySet(FinalEntries(p)) :
                /\ Holders(p, name) # {}
                /\ ComparedFieldsEqual(
                       Descriptor(FinalEntries(p), name),
                       Descriptor(EntriesOf(fr[p].configs[FirstHolder(p, name)]), name))

\* A fold of three records under skip returned, with a service that the
\* first and the last record hold with different compared fields.
C29_Witness ==
    \E p \in Procs :
        /\ FoldDone(p)
        /\ fr[p].options.strategy = "skip"
        /\ Len(fr[p].configs) = 3
        /\ \E name \in KeySet(FinalEntries(p)) :
              /\ FirstHolder(p, name) = 1
              /\ LastHolder(p, name) = 3
              /\ ~ComparedFieldsEqual(
                     Descriptor(EntriesOf(fr[p].configs[1]), name),
                     Descriptor(EntriesOf(fr[p].configs[3]), name))

(* ------------------------------------------------------------------ *)
(* C30                                                                  *)
(* ------------------------------------------------------------------ *)

\* C30: mergeMultipleConfigs over more than one record under strategy
\* overwrite returns a record in which every service has the command,
\* args, env and disabled of the last record of the list that has the
\* service, and detectConflicts of the last record against the returned
\* record finds no conflict.
C30_LastRecordWins ==
    \A p \in Procs :
        (FoldDone(p) /\ fr[p].options.strategy = "overwrite") =>
            /\ \A name \in KeySet(FinalEntries(p)) :
                  /\ Holders(p, name) # {}
                  /\ ComparedFieldsEqual(
                         Descriptor(FinalEntries(p), name),
                         Descriptor(EntriesOf(fr[p].configs[LastHolder(p, name)]), name))
            /\ detectConflicts(heap, fr[p].configs[Len(fr[p].configs)],
                               fr[p].ret[1].config[1], now) = <<>>

\* A fold of three records under overwrite returned, with a service that
\* the first and the last record hold with different compared fields.
C30_Witness ==
    \E p \in Procs :
        /\ FoldDone(p)
        /\ fr[p].options.strategy = "overwrite"
        /\ Len(fr[p].configs) = 3
        /\ \E name \in KeySet(FinalEntries(p)) :
              /\ FirstHolder(p, name) = 1
              /\ LastHolder(p, name) = 3
              /\ ~ComparedFieldsEqual(
                     Descriptor(EntriesOf(fr[p].configs[1]), name),
                     Descriptor(EntriesOf(fr[p].configs[3]), name))

====
